---- MODULE Spec2Model ----
(***************************************************************************)
(* Model of the claudeCity simulation core: the tile grid and building     *)
(* registry (City, Tile), the tool layer (Game.useTool, Budget) and the    *)
(* per-tick passes of Simulation (power grid, road access, zone            *)
(* development, pollution, demand, services, fires and the nuclear         *)
(* meltdown), and the save and load of a city.                             *)
(*                                                                         *)
(* Conventions: JavaScript null is modelled as 0 for buildingId (ids start *)
(* at 1 and the code tests `if (tile.buildingId)`) and as the string       *)
(* "null" for zoneType / zoneClass.  Math.random() draws are modelled as   *)
(* nondeterministic choices.                                               *)
(***************************************************************************)
EXTENDS Integers, Sequences, FiniteSets, TLC

VARIABLES
  width, height,        \* City.width / City.height
  tiles,                \* City.tiles: <<x,y>> -> Tile
  buildings,            \* City.buildings: id -> {id,type,x,y,width,height}
  nextBuildingId,       \* City.nextBuildingId
  funds,                \* Budget.funds
  difficulty,           \* Budget.difficulty
  stats,                \* Simulation.stats, the averages in thousandths (floor), and
                        \* Simulation.population as its field population
  demand,               \* Simulation.{residential,commercial,industrial}Demand, in hundredths
  fires,                \* Simulation.activeDisasters.fires: sequence of {x,y,age}
  zoneScan,             \* position of the scan of updateZoneDevelopment (0 = no scan running)
  cutoffQueue,          \* the BFS queue entries updatePowerGrid had not dequeued when its loop ended
  funding,              \* Budget.policeFunding / fireFunding / transportFunding
  disasters,            \* Simulation.activeDisasters.monster / tornado: <<>> for null, else <<record>>
  timer,                \* Simulation.isPaused, speed, tickTimer (0 for null) and the set of
                        \* timeouts pending in the event loop
  calendar,             \* Simulation.year, month and the scenario fields
  lastOp,               \* the operation that ran last: "command", "useTool", or the name of a pass
  ret                   \* what it returned (a pass that returns nothing counts as true)

vars == <<width, height, tiles, buildings, nextBuildingId, funds, difficulty,
          stats, demand, fires, zoneScan, cutoffQueue, funding, disasters, timer, calendar,
          lastOp, ret>>

----------------------------------------------------------------------------
(* Bounds of the model *)

MaxBuildingId == 2      \* placements stop once nextBuildingId exceeds this
MaxInfra == 1           \* at most this many road/rail/park/power-line tiles are laid
MaxFires == 1           \* at most this many tiles burn or lie in rubble
StripFires == 2         \* the same on a map one tile wide, where a spread is followed
MaxZones == 24          \* zones of the large power-grid layouts

FireTargets == {<<5, 0>>, <<8, 1>>, <<0, 3>>}   \* where a fire disaster may start

----------------------------------------------------------------------------
(* constants.js *)

EMPTY == 0
WATER == 1
FOREST == 2
ROAD == 3
POWER_LINE == 4
RAIL == 5
PARK == 6
ZONE_RESIDENTIAL == 10
ZONE_COMMERCIAL == 11
ZONE_INDUSTRIAL == 12
BUILDING_RESIDENTIAL == 20
BUILDING_COMMERCIAL == 21
BUILDING_INDUSTRIAL == 22
COAL_POWER == 30
NUCLEAR_POWER == 31
POLICE == 32
FIRE == 33
STADIUM == 34
SEAPORT == 35
AIRPORT == 36
RUBBLE == 99
FIRE_BURNING == 100
FLOOD == 101
NUCLEAR_WASTE == 102

ZONE_SIZE == 3

ZoneTypes == {"residential", "commercial", "industrial"}
BuildingTypes == {"coal-power", "nuclear-power", "police", "fire", "stadium", "seaport", "airport"}

\* GAME_CONSTANTS.BUILDING_SIZES; an unknown type has no entry (size 0 stands for undefined)
BUILDING_SIZES(t) ==
  CASE t \in {"coal-power", "nuclear-power", "stadium", "seaport"} -> [width |-> 4, height |-> 4]
    [] t \in {"police", "fire"} -> [width |-> 3, height |-> 3]
    [] t = "airport" -> [width |-> 6, height |-> 6]
    [] OTHER -> [width |-> 0, height |-> 0]

TOOL_COSTS(t) ==
  CASE t = "pointer" -> 0
    [] t = "bulldozer" -> 1
    [] t = "road" -> 4
    [] t = "power-line" -> 2
    [] t = "rail" -> 10
    [] t \in ZoneTypes -> 100
    [] t \in {"police", "fire"} -> 500
    [] t = "park" -> 10
    [] t = "coal-power" -> 2000
    [] t = "nuclear-power" -> 5000
    [] t = "stadium" -> 3000
    [] t = "seaport" -> 1000
    [] t = "airport" -> 4000
    [] OTHER -> 0

ZONE_MAX_LEVELS(z) ==
  CASE z = "residential" -> 9
    [] z = "commercial" -> 5
    [] z = "industrial" -> 4
    [] OTHER -> 0

RESIDENTIAL_POPULATION(l) ==
  CASE l = 1 -> 8 [] l = 2 -> 24 [] l = 3 -> 64 [] l = 4 -> 128 [] l = 5 -> 256
    [] l = 6 -> 512 [] l = 7 -> 768 [] l = 8 -> 1280 [] l = 9 -> 1920 [] OTHER -> 0

COMMERCIAL_JOBS(l) ==
  CASE l = 1 -> 392 [] l = 2 -> 784 [] l = 3 -> 1176 [] l = 4 -> 1568 [] l = 5 -> 1960
    [] OTHER -> 0

INDUSTRIAL_JOBS(l) ==
  CASE l = 1 -> 160 [] l = 2 -> 320 [] l = 3 -> 480 [] l = 4 -> 640 [] OTHER -> 0

POWER_OUTPUT(t) == IF t = "coal-power" THEN 200 ELSE 500

LAND_VALUE_THRESHOLDS == [LOW |-> 0, MID |-> 30, UPPER |-> 80, HIGH |-> 150]

\* COMMERCIAL_LAND_VALUE_REQUIREMENTS[nextLevel] || 0
COMMERCIAL_LAND_VALUE_REQUIREMENTS(l) ==
  CASE l = 2 -> 40 [] l = 3 -> 80 [] l = 4 -> 120 [] l = 5 -> 160 [] OTHER -> 0

startingFunds(d) ==
  CASE d = "easy" -> 20000 [] d = "normal" -> 10000 [] OTHER -> 5000

----------------------------------------------------------------------------
(* Tile.js *)

\* the value of a tile field or a statistic that holds NaN
NaN == -1

\* new Tile(x, y)
NewTile ==
  [type |-> EMPTY, zoneType |-> "null", level |-> 0, zoneClass |-> "null",
   powered |-> FALSE, roadAccess |-> FALSE, buildingId |-> 0, isMainTile |-> FALSE,
   buildingWidth |-> 1, buildingHeight |-> 1, landValue |-> 50, pollution |-> 0,
   crime |-> 0, traffic |-> 0, fireRisk |-> 0, population |-> 0, jobs |-> 0,
   powerLineCrossover |-> FALSE]

isEmpty(t) == t.type = EMPTY
isWater(t) == t.type = WATER
isForest(t) == t.type = FOREST
isRoad(t) == t.type = ROAD
isPowerLine(t) == t.type = POWER_LINE
isRail(t) == t.type = RAIL
isPark(t) == t.type = PARK
isBurning(t) == t.type = FIRE_BURNING
isFlooded(t) == t.type = FLOOD
isRubble(t) == t.type = RUBBLE
isZone(t) == t.type \in {ZONE_RESIDENTIAL, ZONE_COMMERCIAL, ZONE_INDUSTRIAL}
isBuilding(t) == t.type \in {BUILDING_RESIDENTIAL, BUILDING_COMMERCIAL, BUILDING_INDUSTRIAL}
isResidential(t) == t.type \in {ZONE_RESIDENTIAL, BUILDING_RESIDENTIAL}
isCommercial(t) == t.type \in {ZONE_COMMERCIAL, BUILDING_COMMERCIAL}
isIndustrial(t) == t.type \in {ZONE_INDUSTRIAL, BUILDING_INDUSTRIAL}
isPowerPlant(t) == t.type \in {COAL_POWER, NUCLEAR_POWER}
isService(t) == t.type \in {POLICE, FIRE}

\* called by Simulation.updatePollution and updateDisasters
isNuclearWaste(t) == t.type = NUCLEAR_WASTE
isSpecialBuilding(t) == t.type >= 30 /\ t.type < 40

conductsPower(t) ==
  isRoad(t) \/ isPowerLine(t) \/ isZone(t) \/ isBuilding(t) \/ isSpecialBuilding(t)

providesRoadAccess(t) == isRoad(t) \/ isRail(t)

canBuildOn(t) == isEmpty(t) \/ isForest(t)

canBulldoze(t) == ~isWater(t) /\ ~isEmpty(t) /\ ~isFlooded(t)

\* a variant in which rubble burns too
isFlammable_RubbleBurns(t) ==
  isForest(t) \/ isBuilding(t) \/ isZone(t) \/ isSpecialBuilding(t) \/ isPark(t) \/ isRubble(t)

isFlammable(t) ==
  isForest(t) \/ isBuilding(t) \/ isZone(t) \/ isSpecialBuilding(t) \/ isPark(t)

\* Tile.clear(): landValue, pollution, fireRisk and powerLineCrossover are not reset
clear(t) ==
  [t EXCEPT !.type = EMPTY, !.zoneType = "null", !.level = 0, !.zoneClass = "null",
            !.powered = FALSE, !.roadAccess = FALSE, !.buildingId = 0,
            !.isMainTile = FALSE, !.buildingWidth = 1, !.buildingHeight = 1,
            !.population = 0, !.jobs = 0]

setZone(t, zoneType) ==
  [t EXCEPT !.type = CASE zoneType = "residential" -> ZONE_RESIDENTIAL
                       [] zoneType = "commercial" -> ZONE_COMMERCIAL
                       [] zoneType = "industrial" -> ZONE_INDUSTRIAL
                       [] OTHER -> t.type,
            !.zoneType = zoneType, !.level = 0, !.population = 0, !.jobs = 0]

getMaxLevel(t) == IF t.zoneType = "null" THEN 0 ELSE ZONE_MAX_LEVELS(t.zoneType)

develop(t) ==
  IF ~isZone(t) THEN t
  ELSE [t EXCEPT !.type = CASE t.type = ZONE_RESIDENTIAL -> BUILDING_RESIDENTIAL
                            [] t.type = ZONE_COMMERCIAL -> BUILDING_COMMERCIAL
                            [] OTHER -> BUILDING_INDUSTRIAL]

updateStats(t) ==
  IF isResidential(t)
    THEN [t EXCEPT !.population = RESIDENTIAL_POPULATION(t.level), !.jobs = 0]
  ELSE IF isCommercial(t)
    THEN [t EXCEPT !.population = 0, !.jobs = COMMERCIAL_JOBS(t.level)]
  ELSE IF isIndustrial(t)
    THEN [t EXCEPT !.population = 0, !.jobs = INDUSTRIAL_JOBS(t.level)]
  ELSE t

increaseLevel(t) ==
  IF t.level < getMaxLevel(t) THEN updateStats([t EXCEPT !.level = t.level + 1]) ELSE t

decreaseLevel(t) ==
  IF t.level > 0 THEN updateStats([t EXCEPT !.level = t.level - 1]) ELSE t

isMaxLevel(t) == t.level >= getMaxLevel(t)

\* Math.max(0, landValue - Math.floor(pollution * 0.5))
getEffectiveLandValue(t) ==
  LET v == t.landValue - (t.pollution \div 2) IN IF v < 0 THEN 0 ELSE v

calculateZoneClass(t) ==
  LET v == getEffectiveLandValue(t) IN
  IF v >= LAND_VALUE_THRESHOLDS.HIGH THEN "high"
  ELSE IF v >= LAND_VALUE_THRESHOLDS.UPPER THEN "upper"
  ELSE IF v >= LAND_VALUE_THRESHOLDS.MID THEN "mid"
  ELSE "low"

\* Tile.updateZoneClass(): rnd is the outcome of Math.random() < 0.5
updateZoneClass(t, rnd) ==
  IF isBuilding(t) \/ isZone(t)
    THEN IF isIndustrial(t)
           THEN [t EXCEPT !.zoneClass = IF rnd THEN "low" ELSE "high"]
           ELSE [t EXCEPT !.zoneClass = calculateZoneClass(t)]
    ELSE t

isHighClass(t) == t.zoneClass = "high"

\* the fields Tile.serialize() writes (x and y are the tile's position; density
\* always equals level)
SerializedFields ==
  {"type", "zoneType", "level", "zoneClass", "powered", "roadAccess", "buildingId",
   "isMainTile", "buildingWidth", "buildingHeight", "landValue", "pollution",
   "population", "jobs"}

\* a variant that writes every field of the tile
serialize_LevelDropped(t) == [k \in SerializedFields \ {"level"} |-> t[k]]

serialize(t) == [k \in SerializedFields |-> t[k]]

\* Tile.deserialize(data): a new Tile with the fields of data assigned over it
deserialize(data) == [k \in DOMAIN NewTile |-> IF k \in DOMAIN data THEN data[k] ELSE NewTile[k]]

----------------------------------------------------------------------------
(* City.js *)

Positions(w, h) == (0 .. w - 1) \X (0 .. h - 1)

isInBounds(x, y) == x >= 0 /\ x < width /\ y >= 0 /\ y < height

\* the cells of a w x h footprint anchored at (x, y), in or out of bounds
Footprint(x, y, w, h) == {<<x + dx, y + dy>> : dx \in 0 .. w - 1, dy \in 0 .. h - 1}

\* the result of a command that returned false
Rejected(ts, bs, nid) == [ok |-> FALSE, tiles |-> ts, buildings |-> bs, nextBuildingId |-> nid]

placeRoad(ts, bs, nid, x, y) ==
  IF ~isInBounds(x, y) THEN Rejected(ts, bs, nid)
  ELSE IF canBuildOn(ts[<<x, y>>]) \/ isPowerLine(ts[<<x, y>>])
    THEN [ok |-> TRUE, tiles |-> [ts EXCEPT ![<<x, y>>].type = ROAD],
          buildings |-> bs, nextBuildingId |-> nid]
  ELSE Rejected(ts, bs, nid)

placePowerLine(ts, bs, nid, x, y) ==
  IF ~isInBounds(x, y) THEN Rejected(ts, bs, nid)
  ELSE IF canBuildOn(ts[<<x, y>>])
    THEN [ok |-> TRUE, tiles |-> [ts EXCEPT ![<<x, y>>].type = POWER_LINE],
          buildings |-> bs, nextBuildingId |-> nid]
  ELSE IF isRoad(ts[<<x, y>>]) \/ isRail(ts[<<x, y>>])
    THEN [ok |-> TRUE,
          tiles |-> [ts EXCEPT ![<<x, y>>].powerLineCrossover = TRUE,
                               ![<<x, y>>].powered = TRUE],
          buildings |-> bs, nextBuildingId |-> nid]
  ELSE Rejected(ts, bs, nid)

placeRail(ts, bs, nid, x, y) ==
  IF ~isInBounds(x, y) THEN Rejected(ts, bs, nid)
  ELSE IF canBuildOn(ts[<<x, y>>])
    THEN [ok |-> TRUE, tiles |-> [ts EXCEPT ![<<x, y>>].type = RAIL],
          buildings |-> bs, nextBuildingId |-> nid]
  ELSE Rejected(ts, bs, nid)

placePark(ts, bs, nid, x, y) ==
  IF ~isInBounds(x, y) THEN Rejected(ts, bs, nid)
  ELSE IF canBuildOn(ts[<<x, y>>])
    THEN [ok |-> TRUE, tiles |-> [ts EXCEPT ![<<x, y>>].type = PARK],
          buildings |-> bs, nextBuildingId |-> nid]
  ELSE Rejected(ts, bs, nid)

\* every footprint tile exists and can be built on
FootprintBuildable(ts, x, y, w, h) ==
  \A p \in Footprint(x, y, w, h) : isInBounds(p[1], p[2]) /\ canBuildOn(ts[p])

\* buildings.set(id, entry)
RegistrySet(bs, id, entry) ==
  [i \in DOMAIN bs \cup {id} |-> IF i = id THEN entry ELSE bs[i]]

\* buildings.delete(id)
RegistryDelete(bs, id) == [i \in DOMAIN bs \ {id} |-> bs[i]]

\* a variant that takes the next building id before validating the footprint
placeZone_IdFirst(ts, bs, nid, startX, startY, zoneType) ==
  IF ~FootprintBuildable(ts, startX, startY, ZONE_SIZE, ZONE_SIZE)
    THEN [ok |-> FALSE, tiles |-> ts, buildings |-> bs, nextBuildingId |-> nid + 1]
    ELSE [ok |-> TRUE,
          tiles |-> [p \in DOMAIN ts |->
                       IF p \in Footprint(startX, startY, ZONE_SIZE, ZONE_SIZE)
                         THEN [setZone(ts[p], zoneType) EXCEPT
                                 !.buildingId = nid,
                                 !.isMainTile = (p = <<startX, startY>>),
                                 !.buildingWidth = IF p = <<startX, startY>> THEN ZONE_SIZE ELSE @,
                                 !.buildingHeight = IF p = <<startX, startY>> THEN ZONE_SIZE ELSE @]
                         ELSE ts[p]],
          buildings |-> RegistrySet(bs, nid,
                          [id |-> nid, type |-> zoneType, x |-> startX, y |-> startY,
                           width |-> ZONE_SIZE, height |-> ZONE_SIZE]),
          nextBuildingId |-> nid + 1]

placeZone(ts, bs, nid, startX, startY, zoneType) ==
  IF ~FootprintBuildable(ts, startX, startY, ZONE_SIZE, ZONE_SIZE) THEN Rejected(ts, bs, nid)
  ELSE
    LET fp == Footprint(startX, startY, ZONE_SIZE, ZONE_SIZE)
        placed(p) ==
          LET z == [setZone(ts[p], zoneType) EXCEPT !.buildingId = nid] IN
          IF p = <<startX, startY>>
            THEN [z EXCEPT !.isMainTile = TRUE, !.buildingWidth = ZONE_SIZE,
                           !.buildingHeight = ZONE_SIZE]
            ELSE z
    IN [ok |-> TRUE,
        tiles |-> [p \in DOMAIN ts |-> IF p \in fp THEN placed(p) ELSE ts[p]],
        buildings |-> RegistrySet(bs, nid,
                        [id |-> nid, type |-> zoneType, x |-> startX, y |-> startY,
                         width |-> ZONE_SIZE, height |-> ZONE_SIZE]),
        nextBuildingId |-> nid + 1]

\* the tile type of a special building
BuildingTileType(buildingType) ==
  CASE buildingType = "coal-power" -> COAL_POWER
    [] buildingType = "nuclear-power" -> NUCLEAR_POWER
    [] buildingType = "police" -> POLICE
    [] buildingType = "fire" -> FIRE
    [] buildingType = "stadium" -> STADIUM
    [] buildingType = "seaport" -> SEAPORT
    [] OTHER -> AIRPORT

placeBuilding(ts, bs, nid, startX, startY, buildingType) ==
  LET sizeInfo == BUILDING_SIZES(buildingType) IN
  IF sizeInfo.width = 0 THEN Rejected(ts, bs, nid)
  ELSE IF ~FootprintBuildable(ts, startX, startY, sizeInfo.width, sizeInfo.height)
    THEN Rejected(ts, bs, nid)
  ELSE IF buildingType \notin BuildingTypes THEN Rejected(ts, bs, nid)
  ELSE
    LET fp == Footprint(startX, startY, sizeInfo.width, sizeInfo.height)
        isPlant == buildingType \in {"coal-power", "nuclear-power"}
        placed(p) ==
          LET b == [ts[p] EXCEPT !.type = BuildingTileType(buildingType),
                                 !.buildingId = nid,
                                 !.powered = IF isPlant THEN TRUE ELSE @] IN
          IF p = <<startX, startY>>
            THEN [b EXCEPT !.isMainTile = TRUE, !.buildingWidth = sizeInfo.width,
                           !.buildingHeight = sizeInfo.height]
            ELSE b
    IN [ok |-> TRUE,
        tiles |-> [p \in DOMAIN ts |-> IF p \in fp THEN placed(p) ELSE ts[p]],
        buildings |-> RegistrySet(bs, nid,
                        [id |-> nid, type |-> buildingType, x |-> startX, y |-> startY,
                         width |-> sizeInfo.width, height |-> sizeInfo.height]),
        nextBuildingId |-> nid + 1]

bulldoze(ts, bs, nid, x, y) ==
  IF ~isInBounds(x, y) THEN Rejected(ts, bs, nid)
  ELSE IF ~canBulldoze(ts[<<x, y>>]) THEN Rejected(ts, bs, nid)
  ELSE
    LET id == ts[<<x, y>>].buildingId IN
    IF id # 0
      THEN IF id \in DOMAIN bs
             THEN LET b == bs[id]
                      fp == Footprint(b.x, b.y, b.width, b.height)
                  IN [ok |-> TRUE,
                      tiles |-> [p \in DOMAIN ts |-> IF p \in fp THEN clear(ts[p]) ELSE ts[p]],
                      buildings |-> RegistryDelete(bs, id),
                      nextBuildingId |-> nid]
             ELSE [ok |-> TRUE, tiles |-> ts, buildings |-> bs, nextBuildingId |-> nid]
      ELSE [ok |-> TRUE, tiles |-> [ts EXCEPT ![<<x, y>>] = clear(@)],
            buildings |-> bs, nextBuildingId |-> nid]

getPowerPlants(ts) ==
  {p \in DOMAIN ts : isPowerPlant(ts[p]) /\ ts[p].isMainTile}

\* the output of the plant whose main tile is at p
PlantOutput(ts, p) ==
  IF ts[p].type = COAL_POWER THEN POWER_OUTPUT("coal-power") ELSE POWER_OUTPUT("nuclear-power")

\* a variant that also looks at the four cells diagonal to the footprint's corners
zoneHasRoadAccess_Corners(ts, startX, startY, w, h) ==
  \E dx \in -1 .. w, dy \in -1 .. h :
    /\ dx \in {-1, w} \/ dy \in {-1, h}
    /\ isInBounds(startX + dx, startY + dy)
    /\ providesRoadAccess(ts[<<startX + dx, startY + dy>>])

zoneHasRoadAccess(ts, startX, startY, w, h) ==
  \/ \E dx \in 0 .. w - 1 :
       \/ isInBounds(startX + dx, startY - 1) /\ providesRoadAccess(ts[<<startX + dx, startY - 1>>])
       \/ isInBounds(startX + dx, startY + h) /\ providesRoadAccess(ts[<<startX + dx, startY + h>>])
  \/ \E dy \in 0 .. h - 1 :
       \/ isInBounds(startX - 1, startY + dy) /\ providesRoadAccess(ts[<<startX - 1, startY + dy>>])
       \/ isInBounds(startX + w, startY + dy) /\ providesRoadAccess(ts[<<startX + w, startY + dy>>])

\* the i-th position of the y/x loops over the map, from 1
ScanPosition(i) == <<(i - 1) % width, (i - 1) \div width>>

\* a variant that adds up the population of every residential tile
RECURSIVE TotalPopulationFrom_EveryTile(_, _)
TotalPopulationFrom_EveryTile(ts, i) ==
  IF i > width * height THEN 0
  ELSE LET t == ts[ScanPosition(i)] IN
       (IF isResidential(t) THEN t.population ELSE 0) + TotalPopulationFrom_EveryTile(ts, i + 1)

\* the sum getTotalPopulation gathers from the i-th position of its loops on
RECURSIVE TotalPopulationFrom(_, _)
TotalPopulationFrom(ts, i) ==
  IF i > width * height THEN 0
  ELSE LET t == ts[ScanPosition(i)] IN
       (IF t.isMainTile /\ isResidential(t) THEN t.population ELSE 0)
         + TotalPopulationFrom(ts, i + 1)

getTotalPopulation(ts) == TotalPopulationFrom(ts, 1)

\* getZoneStats from the i-th position of its loops on
RECURSIVE ZoneStatsFrom(_, _)
ZoneStatsFrom(ts, i) ==
  IF i > width * height
    THEN [population |-> 0, commercialJobs |-> 0, industrialJobs |-> 0,
          residentialZones |-> 0, commercialZones |-> 0, industrialZones |-> 0]
  ELSE LET t == ts[ScanPosition(i)]
           rest == ZoneStatsFrom(ts, i + 1)
           one == IF isBuilding(t) THEN 1 ELSE 0
       IN IF ~t.isMainTile THEN rest
          ELSE IF isResidential(t)
            THEN [rest EXCEPT !.population = @ + t.population, !.residentialZones = @ + one]
          ELSE IF isCommercial(t)
            THEN [rest EXCEPT !.commercialJobs = @ + t.jobs, !.commercialZones = @ + one]
          ELSE IF isIndustrial(t)
            THEN [rest EXCEPT !.industrialJobs = @ + t.jobs, !.industrialZones = @ + one]
          ELSE rest

getZoneStats(ts) == ZoneStatsFrom(ts, 1)

\* City.serialize(): the snapshot that goes through JSON
CitySerialize(w, h, ts, bs, nid) ==
  [width |-> w, height |-> h, tiles |-> [p \in DOMAIN ts |-> serialize(ts[p])],
   buildings |-> bs, nextBuildingId |-> nid]

\* City.deserialize(data)
CityDeserialize(data) ==
  [width |-> data.width, height |-> data.height,
   tiles |-> [p \in DOMAIN data.tiles |-> deserialize(data.tiles[p])],
   buildings |-> data.buildings, nextBuildingId |-> data.nextBuildingId]

----------------------------------------------------------------------------
(* Simulation.updatePowerGrid *)

\* positions in the scan order of the code's loops: rows top to bottom, x ascending
ScanIndex(p) == p[2] * width + p[1]

\* plants.forEach(p => totalPower += p.output), over the plants in scan order
RECURSIVE TotalPower(_, _)
TotalPower(ts, plants) ==
  IF plants = <<>> THEN 0
  ELSE PlantOutput(ts, Head(plants)) + TotalPower(ts, Tail(plants))

\* the elements of a set of positions as a sequence in scan order
RECURSIVE InScanOrder(_)
InScanOrder(S) ==
  IF S = {} THEN <<>>
  ELSE LET m == CHOOSE p \in S : \A q \in S : ScanIndex(p) <= ScanIndex(q)
       IN <<m>> \o InScanOrder(S \ {m})

\* the cells of a footprint in the order of the code's dy/dx loops
FootprintSeq(x, y, w, h) ==
  [i \in 1 .. w * h |-> <<x + ((i - 1) % w), y + ((i - 1) \div w)>>]

RECURSIVE SeedQueue(_, _, _)
SeedQueue(ts, bs, plants) ==
  IF plants = <<>> THEN <<>>
  ELSE LET p == Head(plants)
           id == ts[p].buildingId
       IN (IF id \in DOMAIN bs
             THEN FootprintSeq(p[1], p[2], bs[id].width, bs[id].height)
             ELSE <<>>) \o SeedQueue(ts, bs, Tail(plants))

\* the left, right, up, down neighbours the code pushes, in that order
PowerNeighbors(ts, visited, p) ==
  LET cand == << <<p[1] - 1, p[2]>>, <<p[1] + 1, p[2]>>, <<p[1], p[2] - 1>>, <<p[1], p[2] + 1>> >>
  IN SelectSeq(cand, LAMBDA n :
       /\ n \notin visited
       /\ isInBounds(n[1], n[2])
       /\ (conductsPower(ts[n]) \/ isPowerPlant(ts[n])))

\* a variant whose loop runs one consuming tile past the output
BfsDone_OnePast(s) == s.head > Len(s.queue) \/ s.powerConsumed > s.totalPower

BfsDone(s) == s.head > Len(s.queue) \/ s.powerConsumed >= s.totalPower

\* one iteration of the while loop; the queue is kept whole and head is the next index
BfsStep(ts, s) ==
  IF BfsDone(s) THEN s
  ELSE
    LET p == s.queue[s.head]
        popped == [s EXCEPT !.head = @ + 1]
    IN IF p \in s.visited THEN popped
       ELSE LET seen == [popped EXCEPT !.visited = @ \cup {p}] IN
            IF ~isInBounds(p[1], p[2]) THEN seen
            ELSE IF conductsPower(ts[p]) \/ isPowerPlant(ts[p])
              THEN [seen EXCEPT
                      !.on = @ \cup {p},
                      !.powerConsumed =
                         IF p \notin s.on /\ (isZone(ts[p]) \/ isBuilding(ts[p]))
                           THEN @ + 1 ELSE @,
                      !.queue = @ \o PowerNeighbors(ts, seen.visited, p)]
              ELSE seen

\* n iterations of the loop (an iteration after the loop has ended changes nothing)
RECURSIVE BfsRun(_, _, _)
BfsRun(ts, s, n) ==
  IF BfsDone(s) \/ n = 0 THEN s
  ELSE IF n = 1 THEN BfsStep(ts, s)
  ELSE BfsRun(ts, BfsRun(ts, s, n \div 2), n - (n \div 2))

\* the state of the loop when it ends
PowerBfs(ts, bs) ==
  LET plants == InScanOrder(getPowerPlants(ts))
      total == TotalPower(ts, plants)
      start == [queue |-> SeedQueue(ts, bs, plants), head |-> 1, visited |-> {},
                on |-> {p \in DOMAIN ts : isPowerPlant(ts[p]) /\ ts[p].powered},
                powerConsumed |-> 0, totalPower |-> total]
  IN BfsRun(ts, start, 5 * Cardinality(DOMAIN ts) + 1)

\* a variant that also marks what is still waiting in the queue
PoweredTiles_QueueDrained(ts, s) ==
  [p \in DOMAIN ts |->
     [ts[p] EXCEPT !.powered =
        p \in s.on \/ (\E i \in s.head .. Len(s.queue) : s.queue[i] = p /\ conductsPower(ts[p]))]]

PoweredTiles(ts, s) == [p \in DOMAIN ts |-> [ts[p] EXCEPT !.powered = (p \in s.on)]]

\* the queue entries not yet dequeued when the loop ended
PendingQueue(s) ==
  {s.queue[i] : i \in s.head .. Len(s.queue)} \ s.visited

----------------------------------------------------------------------------
(* Simulation.updateRoadAccess *)

RoadAccessPass1(ts) ==
  [p \in DOMAIN ts |->
     IF ts[p].isMainTile /\ (isZone(ts[p]) \/ isBuilding(ts[p]))
       THEN [ts[p] EXCEPT !.roadAccess =
               zoneHasRoadAccess(ts, p[1], p[2], ts[p].buildingWidth, ts[p].buildingHeight)]
       ELSE ts[p]]

\* a variant without the second pass
RoadAccessPass2_Skipped(ts, bs) == ts

RoadAccessPass2(ts, bs) ==
  [p \in DOMAIN ts |->
     IF ~ts[p].isMainTile /\ ts[p].buildingId # 0 /\ ts[p].buildingId \in DOMAIN bs
       THEN LET b == bs[ts[p].buildingId] IN
            IF isInBounds(b.x, b.y)
              THEN [ts[p] EXCEPT !.roadAccess = ts[<<b.x, b.y>>].roadAccess]
              ELSE ts[p]
       ELSE ts[p]]

updateRoadAccess(ts, bs) == RoadAccessPass2(RoadAccessPass1(ts), bs)

----------------------------------------------------------------------------
(* Simulation.updateZoneDevelopment and its helpers *)

getDemandForZone(dm, zoneType) ==
  CASE zoneType = "residential" -> dm.residential
    [] zoneType = "commercial" -> dm.commercial
    [] zoneType = "industrial" -> dm.industrial
    [] OTHER -> 0

\* a variant without the early return at a demand of 0 or less
calculateGrowthChance_NoDemandGate(t, d) ==
  LET base == d * 50
      chance == IF isResidential(t)
                  THEN base + ((getEffectiveLandValue(t) * 5000) \div 255)
                ELSE IF isIndustrial(t) THEN (base * 6) \div 5
                ELSE base
  IN IF chance > 20000 THEN 20000 ELSE chance

\* growth chance in units of 1/100000 for a demand given in hundredths
calculateGrowthChance(t, d) ==
  IF d <= 0 THEN 0
  ELSE LET base == d * 50
           chance == IF isResidential(t)
                       THEN base + ((getEffectiveLandValue(t) * 5000) \div 255)
                     ELSE IF isIndustrial(t) THEN (base * 6) \div 5
                     ELSE base
       IN IF chance > 20000 THEN 20000 ELSE chance

\* a variant that asks nothing of the growing zone's own class
canReachTopLevel_OwnClassFree(ts, p) ==
  \/ isIndustrial(ts[p])
  \/ /\ ts[p].level = getMaxLevel(ts[p]) - 1
     /\ \E a \in {<<p[1] - 3, p[2]>>, <<p[1] + 3, p[2]>>, <<p[1], p[2] - 3>>, <<p[1], p[2] + 3>>} :
          /\ isInBounds(a[1], a[2])
          /\ ts[a].isMainTile
          /\ ts[a].zoneType = ts[p].zoneType
          /\ ts[a].level = getMaxLevel(ts[p]) - 1
          /\ isHighClass(ts[a])

canReachTopLevel(ts, p) ==
  LET t == ts[p]
      requiredLevel == getMaxLevel(t) - 1
      adjacent == {<<p[1] - 3, p[2]>>, <<p[1] + 3, p[2]>>, <<p[1], p[2] - 3>>, <<p[1], p[2] + 3>>}
  IN IF isIndustrial(t) THEN TRUE
     ELSE IF t.level # requiredLevel THEN FALSE
     ELSE IF ~isHighClass(t) THEN FALSE
     ELSE \E a \in adjacent :
            /\ isInBounds(a[1], a[2])
            /\ ts[a].isMainTile
            /\ ts[a].zoneType = t.zoneType
            /\ ts[a].level = requiredLevel
            /\ isHighClass(ts[a])

canZoneGrow(ts, p) ==
  LET t == ts[p]
      nextLevel == t.level + 1
  IN IF isMaxLevel(t) THEN FALSE
     ELSE IF nextLevel >= getMaxLevel(t) THEN canReachTopLevel(ts, p)
     ELSE IF isCommercial(t)
               /\ getEffectiveLandValue(t) < COMMERCIAL_LAND_VALUE_REQUIREMENTS(nextLevel)
       THEN FALSE
     ELSE TRUE

\* the footprint the three density helpers walk: the registry entry's size from (x, y)
DensityFootprint(ts, bs, p) ==
  LET id == ts[p].buildingId IN
  IF id \in DOMAIN bs
    THEN {q \in Footprint(p[1], p[2], bs[id].width, bs[id].height) : isInBounds(q[1], q[2])}
    ELSE {}

\* a variant that leaves the main tile's population and jobs as they were
developZone_StatsKept(ts, bs, p, rnd) ==
  LET fp == DensityFootprint(ts, bs, p)
      developed(q) ==
        LET d == [develop(ts[q]) EXCEPT !.level = 1] IN
        IF d.isMainTile THEN updateZoneClass(d, rnd) ELSE d
  IN [q \in DOMAIN ts |-> IF q \in fp THEN developed(q) ELSE ts[q]]

developZone(ts, bs, p, rnd) ==
  LET fp == DensityFootprint(ts, bs, p)
      developed(q) ==
        LET d == [develop(ts[q]) EXCEPT !.level = 1] IN
        IF d.isMainTile THEN updateZoneClass(updateStats(d), rnd) ELSE d
  IN [q \in DOMAIN ts |-> IF q \in fp THEN developed(q) ELSE ts[q]]

increaseZoneDensity(ts, bs, p, rnd) ==
  LET fp == DensityFootprint(ts, bs, p)
      grown(q) ==
        LET g == increaseLevel(ts[q]) IN
        IF g.isMainTile THEN updateZoneClass(updateStats(g), rnd) ELSE g
  IN IF fp = {} \/ isMaxLevel(ts[p]) THEN ts
     ELSE [q \in DOMAIN ts |-> IF q \in fp THEN grown(q) ELSE ts[q]]

decreaseZoneDensity(ts, bs, p, rnd) ==
  LET fp == DensityFootprint(ts, bs, p)
      shrunk(q) ==
        IF ts[q].level > 0
          THEN LET g == decreaseLevel(ts[q]) IN
               IF g.isMainTile THEN updateZoneClass(updateStats(g), rnd) ELSE g
          ELSE ts[q]
  IN [q \in DOMAIN ts |-> IF q \in fp THEN shrunk(q) ELSE ts[q]]

\* a variant that depopulates every developed zone that cannot develop
ZoneDevelopmentAt_DecayWithoutRoad(ts, bs, dm, p, roll, rnd) ==
  LET t == ts[p]
      canDevelop == t.powered /\ t.roadAccess
      d == getDemandForZone(dm, t.zoneType)
  IN IF ~t.isMainTile \/ t.zoneType = "null" THEN ts
     ELSE IF isZone(t)
       THEN IF canDevelop /\ d > 0 /\ roll THEN developZone(ts, bs, p, rnd) ELSE ts
     ELSE IF isBuilding(t)
       THEN IF canDevelop
              THEN IF calculateGrowthChance(t, d) > 0 /\ roll /\ canZoneGrow(ts, p)
                     THEN increaseZoneDensity(ts, bs, p, rnd)
                     ELSE ts
            ELSE IF roll THEN decreaseZoneDensity(ts, bs, p, rnd)
            ELSE ts
     ELSE ts

\* the body of the scan loop for the tile at p; roll is the outcome of the
\* Math.random() comparison of the branch taken, rnd the draw of updateZoneClass
ZoneDevelopmentAt(ts, bs, dm, p, roll, rnd) ==
  LET t == ts[p]
      canDevelop == t.powered /\ t.roadAccess
      d == getDemandForZone(dm, t.zoneType)
  IN IF ~t.isMainTile \/ t.zoneType = "null" THEN ts
     ELSE IF isZone(t)
       THEN IF canDevelop /\ d > 0 /\ roll THEN developZone(ts, bs, p, rnd) ELSE ts
     ELSE IF isBuilding(t)
       THEN IF canDevelop
              THEN IF calculateGrowthChance(t, d) > 0 /\ roll /\ canZoneGrow(ts, p)
                     THEN increaseZoneDensity(ts, bs, p, rnd)
                     ELSE ts
            ELSE IF ~t.powered /\ roll THEN decreaseZoneDensity(ts, bs, p, rnd)
            ELSE ts
     ELSE ts

----------------------------------------------------------------------------
(* Simulation fires *)

startFire(ts, fs, x, y) ==
  IF ~isInBounds(x, y) THEN [ok |-> FALSE, tiles |-> ts, fires |-> fs]
  ELSE IF isWater(ts[<<x, y>>]) \/ isBurning(ts[<<x, y>>])
    THEN [ok |-> FALSE, tiles |-> ts, fires |-> fs]
  ELSE [ok |-> TRUE, tiles |-> [ts EXCEPT ![<<x, y>>].type = FIRE_BURNING],
        fires |-> Append(fs, [x |-> x, y |-> y, age |-> 0])]

\* the four directions of the spread; 0 stands for a failed spread roll
FireDirs == << <<-1, 0>>, <<1, 0>>, <<0, -1>>, <<0, 1>> >>

\* a variant that lets every fire burn for 30 updates
BurnOutAge_Unprotected(fireProtection) == 30

\* the age a fire must exceed to burn out
BurnOutAge(fireProtection) == IF fireProtection THEN 10 ELSE 30

\* updateFires from index i down to 1; st = [tiles, fires]; choice[i] is the
\* direction drawn for fire i (0: the spread roll failed)
RECURSIVE FiresFrom(_, _, _)
FiresFrom(st, i, choice) ==
  IF i = 0 THEN st
  ELSE
    LET fire == [st.fires[i] EXCEPT !.age = @ + 1]
        pos == <<fire.x, fire.y>>
        aged == [st EXCEPT !.fires[i] = fire]
        without(fs) == SubSeq(fs, 1, i - 1) \o SubSeq(fs, i + 1, Len(fs))
    IN IF ~isInBounds(fire.x, fire.y) \/ ~isBurning(st.tiles[pos])
         THEN FiresFrom([aged EXCEPT !.fires = without(@)], i - 1, choice)
       ELSE
         LET fireProtection == st.tiles[pos].fireRisk # NaN /\ st.tiles[pos].fireRisk < 10
             dir == IF choice[i] = 0 THEN <<0, 0>> ELSE FireDirs[choice[i]]
             nx == fire.x + dir[1]
             ny == fire.y + dir[2]
             spread ==
               IF fire.age < 20 /\ choice[i] # 0 /\ isInBounds(nx, ny)
                    /\ isFlammable(aged.tiles[<<nx, ny>>]) /\ ~isBurning(aged.tiles[<<nx, ny>>])
                 THEN LET r == startFire(aged.tiles, aged.fires, nx, ny)
                      IN [tiles |-> r.tiles, fires |-> r.fires]
                 ELSE aged
             burnt ==
               IF fire.age > BurnOutAge(fireProtection)
                 THEN [tiles |-> [spread.tiles EXCEPT ![pos] = [clear(@) EXCEPT !.type = RUBBLE]],
                       fires |-> without(spread.fires)]
                 ELSE spread
         IN FiresFrom(burnt, i - 1, choice)

updateFires(ts, fs, choice) == FiresFrom([tiles |-> ts, fires |-> fs], Len(fs), choice)

\* startFire on each position of the sequence ps in turn; st = [tiles, fires]
RECURSIVE StartFires(_, _)
StartFires(st, ps) ==
  IF ps = <<>> THEN st
  ELSE LET r == startFire(st.tiles, st.fires, Head(ps)[1], Head(ps)[2]) IN
       StartFires([tiles |-> r.tiles, fires |-> r.fires], Tail(ps))

\* a variant that takes every tile of a nuclear plant
nuclearPlants_AnyTile(ts) == {p \in DOMAIN ts : ts[p].type = NUCLEAR_POWER}

\* the main tiles of the nuclear plants, among which triggerNuclearMeltdown draws
nuclearPlants(ts) == {p \in DOMAIN ts : ts[p].type = NUCLEAR_POWER /\ ts[p].isMainTile}

\* triggerNuclearMeltdown on the nuclear plant whose main tile is at plant
\* (the caller found one); roll holds the positions whose Math.random() < 0.4
\* roll succeeds
triggerNuclearMeltdown(ts, bs, fs, plant, roll) ==
  LET id == ts[plant].buildingId IN
  IF id \notin DOMAIN bs THEN [tiles |-> ts, buildings |-> bs, fires |-> fs]
  ELSE
    LET building == bs[id]
        fp == Footprint(plant[1], plant[2], building.width, building.height)
        center(p) == /\ p[1] - plant[1] >= 1 /\ p[1] - plant[1] < building.width - 1
                     /\ p[2] - plant[2] >= 1 /\ p[2] - plant[2] < building.height - 1
        melted == [p \in DOMAIN ts |->
                     IF p \in fp
                       THEN [ts[p] EXCEPT !.type = IF center(p) THEN NUCLEAR_WASTE ELSE RUBBLE,
                                          !.buildingId = 0, !.isMainTile = FALSE]
                       ELSE ts[p]]
        around == Footprint(plant[1] - 3, plant[2] - 3,
                            building.width + 6, building.height + 6) \cap DOMAIN ts
        lit == {p \in around \cap roll : isFlammable(melted[p])}
        burnt == StartFires([tiles |-> melted, fires |-> fs], InScanOrder(lit))
    IN [tiles |-> burnt.tiles, buildings |-> RegistryDelete(bs, id), fires |-> burnt.fires]

----------------------------------------------------------------------------
(* Simulation.updateDemand, Budget.getEffectiveTaxRate *)

\* the averages of stats are kept in thousandths
StatUnit == 1000

Difficulties == {"easy", "normal", "hard"}

\* DIFFICULTY_SETTINGS; the multiplier in hundredths
taxNeutralRate(d) == CASE d = "easy" -> 7 [] d = "normal" -> 6 [] OTHER -> 5
industrialDemandMultiplier(d) == CASE d = "easy" -> 120 [] d = "normal" -> 110 [] OTHER -> 98

\* Budget.setTaxRate keeps the rate within MIN_TAX_RATE .. MAX_TAX_RATE
TaxRates == 0 .. 20

getEffectiveTaxRate(taxRate, d) == taxRate + (7 - taxNeutralRate(d))

\* updateDemand's numbers are kept in ten-thousandths (floor)
DemandUnit == 10000

\* a variant that lets every value through
ClampDemand_Open(x) == x

\* Math.min(MAX_DEMAND, Math.max(MIN_DEMAND, x))
ClampDemand(x) ==
  IF x < -1 * DemandUnit THEN -1 * DemandUnit
  ELSE IF x > 2 * DemandUnit THEN 2 * DemandUnit
  ELSE x

\* the three demands updateDemand leaves, in hundredths, for the zone stats
\* zs, the population counted at the end of the last tick, the pollution
\* level (thousandths), the difficulty and the tax rate
updateDemand(zs, population, pollutionLevel, d, taxRate) ==
  LET U == DemandUnit
      totalJobs == zs.commercialJobs + zs.industrialJobs
      jobsPerCapita == IF population > 0 THEN (totalJobs * U) \div population ELSE 2 * U
      maxResidentialPop == zs.residentialZones * 1920
      housingPressure ==
        IF maxResidentialPop > 0 THEN (population * U) \div maxResidentialPop ELSE 0
      residential1 ==
        ClampDemand((5 * U) \div 10 + ((jobsPerCapita - (8 * U) \div 10) * 6) \div 10
                    - (housingPressure * 3) \div 10)
      \* idealCommercialJobs = population * 0.5
      commercialRatio ==
        IF population > 0 THEN (2 * zs.commercialJobs * U) \div population ELSE U
      commercial1 ==
        ClampDemand((3 * U) \div 10 + (((population * U) \div 1000) * 3) \div 10
                    - ((commercialRatio - U) * 5) \div 10)
      \* idealIndustrialJobs = population * 0.33
      industrialRatio ==
        IF population > 0 THEN (100 * zs.industrialJobs * U) \div (33 * population) ELSE U
      pollutionPenalty == (pollutionLevel * (U \div StatUnit)) \div 510
      industrial1 ==
        ClampDemand((6 * U) \div 10 - ((industrialRatio - U) * 4) \div 10 - pollutionPenalty
                    + (((population * U) \div 5000) * 2) \div 10)
      industrial2 == (industrial1 * industrialDemandMultiplier(d)) \div 100
      taxPenalty == ((getEffectiveTaxRate(taxRate, d) - 7) * 3 * U) \div 100
  IN [residential |-> ClampDemand(residential1 - taxPenalty) \div (U \div 100),
      commercial |-> ClampDemand(commercial1 - taxPenalty) \div (U \div 100),
      industrial |-> ClampDemand(industrial2 - taxPenalty \div 2) \div (U \div 100)]

----------------------------------------------------------------------------
(* Simulation.updatePollution, Simulation.diffusePollution *)

POLLUTION_VALUES ==
  [INDUSTRIAL |-> 50, COAL_POWER |-> 60, SEAPORT |-> 60, AIRPORT |-> 60, FIRE |-> 60,
   NUCLEAR_WASTE |-> 250]

\* FACTOR is 0.25: a contribution is the value divided by FACTOR_INV
POLLUTION_DIFFUSION == [FACTOR_INV |-> 4, PASSES |-> 2, MAX_VALUE |-> 255]

\* the values of the 2x2 grid are kept in sixteenths, which two passes of
\* quartering whole numbers never leave
GridUnit == 16

\* gridWidth = Math.ceil(width / 2), gridHeight = Math.ceil(height / 2)
GridCells == Positions((width + 1) \div 2, (height + 1) \div 2)

\* the tiles of the 2x2 square c, in the order the y/x loops reach them
SquareTiles(c) ==
  LET inside(p) == isInBounds(p[1], p[2]) IN
  SelectSeq(<< <<2 * c[1], 2 * c[2]>>, <<2 * c[1] + 1, 2 * c[2]>>,
               <<2 * c[1], 2 * c[2] + 1>>, <<2 * c[1] + 1, 2 * c[2] + 1>> >>, inside)

\* a variant in which every developed zone tile pollutes like industry
pollutionValue_AnyBuilding(t) ==
  IF isBurning(t) THEN POLLUTION_VALUES.FIRE
  ELSE IF t.type = AIRPORT THEN POLLUTION_VALUES.AIRPORT
  ELSE IF t.type = SEAPORT THEN POLLUTION_VALUES.SEAPORT
  ELSE IF t.type = COAL_POWER THEN POLLUTION_VALUES.COAL_POWER
  ELSE IF isBuilding(t) THEN POLLUTION_VALUES.INDUSTRIAL
  ELSE 0

\* pollutionValue of one tile: each later test overrides the earlier ones
pollutionValue(t) ==
  IF isBurning(t) THEN POLLUTION_VALUES.FIRE
  ELSE IF t.type = AIRPORT THEN POLLUTION_VALUES.AIRPORT
  ELSE IF t.type = SEAPORT THEN POLLUTION_VALUES.SEAPORT
  ELSE IF t.type = COAL_POWER THEN POLLUTION_VALUES.COAL_POWER
  ELSE IF isIndustrial(t) /\ isBuilding(t) THEN POLLUTION_VALUES.INDUSTRIAL
  ELSE 0

\* phase 1 on one square: the value after the tiles sq[i], sq[i+1], ... were
\* visited, acc being the value before them (whole numbers)
RECURSIVE SourcedFrom(_, _, _, _)
SourcedFrom(ts, sq, i, acc) ==
  IF i > Len(sq) THEN acc
  ELSE LET t == ts[sq[i]] IN
       IF isNuclearWaste(t) THEN SourcedFrom(ts, sq, i + 1, POLLUTION_VALUES.NUCLEAR_WASTE)
       ELSE IF pollutionValue(t) > 0
         THEN LET sum == acc + pollutionValue(t) IN
              SourcedFrom(ts, sq, i + 1,
                          IF sum > POLLUTION_DIFFUSION.MAX_VALUE
                            THEN POLLUTION_DIFFUSION.MAX_VALUE ELSE sum)
       ELSE SourcedFrom(ts, sq, i + 1, acc)

\* phase 1: the grid of sources, in whole numbers
SourceGrid(ts) == [c \in GridCells |-> SourcedFrom(ts, SquareTiles(c), 1, 0)]

\* a variant that also spreads to the four diagonal cells
DiffusionNeighbors_Diagonals(c, cells) ==
  {n \in cells : n[1] - c[1] \in -1 .. 1 /\ n[2] - c[2] \in -1 .. 1}

\* the cell itself and its neighbours to the north, south, west and east
DiffusionNeighbors(c, cells) ==
  {c} \cup {n \in cells : (n[1] = c[1] /\ (n[2] = c[2] - 1 \/ n[2] = c[2] + 1))
                           \/ (n[2] = c[2] /\ (n[1] = c[1] - 1 \/ n[1] = c[1] + 1))}

RECURSIVE Contributions(_, _)
Contributions(grid, S) ==
  IF S = {} THEN 0
  ELSE LET s == CHOOSE s \in S : TRUE IN
       grid[s] \div POLLUTION_DIFFUSION.FACTOR_INV + Contributions(grid, S \ {s})

\* one pass: every cell gives a quarter of its value to itself and to each
\* neighbour, so a cell of the fresh grid receives the quarters of itself and
\* of its neighbours; the additions are capped at MAX_VALUE one by one, which
\* for non-negative terms is the cap of their sum
diffusePollution(grid) ==
  [c \in DOMAIN grid |->
     LET sum == Contributions(grid, DiffusionNeighbors(c, DOMAIN grid))
         cap == POLLUTION_DIFFUSION.MAX_VALUE * GridUnit
     IN IF sum > cap THEN cap ELSE sum]

RECURSIVE DiffusePasses(_, _)
DiffusePasses(grid, passes) ==
  IF passes = 0 THEN grid ELSE DiffusePasses(diffusePollution(grid), passes - 1)

\* phases 1 and 2: the grid after the passes, in sixteenths
PollutionGrid(ts) ==
  DiffusePasses([c \in GridCells |-> SourceGrid(ts)[c] * GridUnit], POLLUTION_DIFFUSION.PASSES)

\* phase 3: every tile takes the floor of its square's value
updatePollution(ts) ==
  LET grid == PollutionGrid(ts) IN
  [p \in DOMAIN ts |->
     [ts[p] EXCEPT !.pollution = grid[<<p[1] \div 2, p[2] \div 2>>] \div GridUnit]]

----------------------------------------------------------------------------
(* Simulation.updateServices *)

SERVICE_RADIUS(type) == 15

getServiceBuildings(ts) == {p \in DOMAIN ts : isService(ts[p]) /\ ts[p].isMainTile}

\* Math.floor(Math.sqrt(n)), searched between lo and hi
RECURSIVE SqrtBetween(_, _, _)
SqrtBetween(lo, hi, n) ==
  IF lo >= hi THEN lo
  ELSE LET mid == (lo + hi + 1) \div 2 IN
       IF mid * mid <= n THEN SqrtBetween(mid, hi, n) ELSE SqrtBetween(lo, mid - 1, n)

\* effect * base of the service at s on the tile at p, in hundredths: effect is
\* 1 - dist / effectRadius inside the radius (0 outside it)
ServiceReduction(s, p, radius, base) ==
  LET d2 == (p[1] - s[1]) * (p[1] - s[1]) + (p[2] - s[2]) * (p[2] - s[2]) IN
  IF d2 > radius * radius THEN 0
  ELSE base * 100 - SqrtBetween(0, base * 100, (base * base * 10000 * d2) \div (radius * radius))

RECURSIVE TotalReduction(_, _, _, _)
TotalReduction(services, p, radius, base) ==
  IF services = {} THEN 0
  ELSE LET s == CHOOSE s \in services : TRUE IN
       ServiceReduction(s, p, radius, base) + TotalReduction(services \ {s}, p, radius, base)

\* the base level less the effects of the services, not below 0, as a whole number
ServiceLevel(services, p, radius, base) ==
  LET left == base * 100 - TotalReduction(services, p, radius, base) IN
  IF left <= 0 THEN 0 ELSE left \div 100

\* service.radius * funding / 100 in twentieths of a tile, where it is a
\* whole number for every funding percentage
effectRadius(type, fd) ==
  (SERVICE_RADIUS(type) * 20 * (IF type = "police" THEN fd.police ELSE fd.fire)) \div 100

\* the offsets dx and dy of the loops, from -effectRadius in steps of 1 while
\* <= effectRadius, in twentieths
LoopOffsets(r20) == {20 * k - r20 : k \in 0 .. (2 * r20) \div 20}

\* the loops of the service at s reach city.getTile(x, y) with an x, y inside
\* the map that is not a whole number: this.tiles[y] is undefined and
\* this.tiles[y][x] raises a TypeError
getTile_Raises(s, r20) ==
  /\ r20 % 20 # 0
  /\ \E dx \in LoopOffsets(r20), dy \in LoopOffsets(r20) :
       /\ dx * dx + dy * dy <= r20 * r20
       /\ 20 * s[1] + dx >= 0 /\ 20 * s[1] + dx < 20 * width
       /\ 20 * s[2] + dy >= 0 /\ 20 * s[2] + dy < 20 * height

\* crime or fireRisk of the tile at p after the services of one type have been
\* applied. effectRadius 0: the only offset is 0, dist <= effectRadius holds
\* and effect = 1 - 0 / 0 is NaN, so Math.max(0, base - NaN) = NaN is stored in
\* the service's own tile. An effectRadius that is not a whole number reaches
\* no tile of the grid.
ServiceField(services, p, r20, base) ==
  IF r20 = 0 THEN (IF p \in services THEN NaN ELSE base)
  ELSE IF r20 % 20 # 0 THEN base
  ELSE ServiceLevel(services, p, r20 \div 20, base)

\* the reset of crime and fireRisk and the effects of the service buildings,
\* taken in scan order up to the first one whose loops raise; fd is the
\* budget's funding. tiles: the grid it leaves, threw: whether it raised
updateServices(ts, fd) ==
  LET all == getServiceBuildings(ts)
      typeOf(s) == IF ts[s].type = POLICE THEN "police" ELSE "fire"
      raising == {s \in all : getTile_Raises(s, effectRadius(typeOf(s), fd))}
      applied == {s \in all : \A r \in raising : ScanIndex(s) < ScanIndex(r)}
      police == {s \in applied : ts[s].type = POLICE}
      fire == {s \in applied : ts[s].type = FIRE}
  IN [tiles |->
        [p \in DOMAIN ts |->
           [ts[p] EXCEPT !.crime = ServiceField(police, p, effectRadius("police", fd), 50),
                         !.fireRisk = ServiceField(fire, p, effectRadius("fire", fd), 20)]],
      threw |-> raising # {}]

\* the sum of field f over the tiles of S
RECURSIVE FieldTotal(_, _, _)
FieldTotal(ts, S, f) ==
  IF S = {} THEN 0
  ELSE LET p == CHOOSE p \in S : TRUE IN ts[p][f] + FieldTotal(ts, S \ {p}, f)

\* total / count, or 0 when nothing was counted
Average(ts, S, f) ==
  IF S = {} THEN 0
  ELSE IF \E p \in S : ts[p][f] = NaN THEN NaN
  ELSE (FieldTotal(ts, S, f) * StatUnit) \div Cardinality(S)

\* the city-wide stats updateServices computes at its end
ServiceStats(ts, st) ==
  LET built == {p \in DOMAIN ts : isBuilding(ts[p])}
      roads == {p \in DOMAIN ts : isRoad(ts[p])}
  IN [st EXCEPT !.crimeRate = Average(ts, built, "crime"),
                !.pollutionLevel = Average(ts, built, "pollution"),
                !.averageLandValue = Average(ts, built, "landValue"),
                !.averageTraffic = Average(ts, roads, "traffic")]

----------------------------------------------------------------------------
(* Game.js, Budget.js *)

canAfford(f, cost) == f >= cost

\* Budget.spend: the funds afterwards
spend(f, amount) == IF ~canAfford(f, amount) THEN f ELSE f - amount

\* a variant that does not ask the budget
canPlaceTool_NoBudget(ts, f, tool, x, y) ==
  /\ isInBounds(x, y)
  /\ CASE tool = "bulldozer" -> canBulldoze(ts[<<x, y>>])
        [] tool = "road" -> canBuildOn(ts[<<x, y>>]) \/ isPowerLine(ts[<<x, y>>])
        [] tool = "power-line" -> canBuildOn(ts[<<x, y>>]) \/ isRoad(ts[<<x, y>>])
        [] tool \in {"rail", "park"} -> canBuildOn(ts[<<x, y>>])
        [] tool \in ZoneTypes -> FootprintBuildable(ts, x, y, ZONE_SIZE, ZONE_SIZE)
        [] tool \in BuildingTypes ->
             FootprintBuildable(ts, x, y, BUILDING_SIZES(tool).width, BUILDING_SIZES(tool).height)
        [] OTHER -> FALSE

canPlaceTool(ts, f, tool, x, y) ==
  IF ~canAfford(f, TOOL_COSTS(tool)) THEN FALSE
  ELSE IF ~isInBounds(x, y) THEN FALSE
  ELSE LET t == ts[<<x, y>>] IN
    CASE tool = "bulldozer" -> canBulldoze(t)
      [] tool = "road" -> canBuildOn(t) \/ isPowerLine(t)
      [] tool = "power-line" -> canBuildOn(t) \/ isRoad(t)
      [] tool \in {"rail", "park"} -> canBuildOn(t)
      [] tool \in ZoneTypes -> FootprintBuildable(ts, x, y, ZONE_SIZE, ZONE_SIZE)
      [] tool \in BuildingTypes ->
           FootprintBuildable(ts, x, y, BUILDING_SIZES(tool).width, BUILDING_SIZES(tool).height)
      [] OTHER -> FALSE

\* the city command Game.useTool dispatches to
ToolCommand(ts, bs, nid, tool, x, y) ==
  CASE tool = "bulldozer" -> bulldoze(ts, bs, nid, x, y)
    [] tool = "road" -> placeRoad(ts, bs, nid, x, y)
    [] tool = "power-line" -> placePowerLine(ts, bs, nid, x, y)
    [] tool = "rail" -> placeRail(ts, bs, nid, x, y)
    [] tool = "park" -> placePark(ts, bs, nid, x, y)
    [] tool \in ZoneTypes -> placeZone(ts, bs, nid, x, y, tool)
    [] tool \in BuildingTypes -> placeBuilding(ts, bs, nid, x, y, tool)
    [] OTHER -> Rejected(ts, bs, nid)

\* Game.useTool: the city and the funds afterwards; ok is the local `success`
useTool(ts, bs, nid, f, tool, x, y) ==
  IF tool = "pointer" \/ ~canPlaceTool(ts, f, tool, x, y)
    THEN [ok |-> FALSE, tiles |-> ts, buildings |-> bs, nextBuildingId |-> nid, funds |-> f]
  ELSE LET r == ToolCommand(ts, bs, nid, tool, x, y) IN
       [ok |-> r.ok, tiles |-> r.tiles, buildings |-> r.buildings,
        nextBuildingId |-> r.nextBuildingId,
        funds |-> IF r.ok THEN spend(f, TOOL_COSTS(tool)) ELSE f]

----------------------------------------------------------------------------
(* Simulation: monster and tornado *)

\* a variant that leaves the value as it is
KeepInBounds_Unclamped(v, size) == v

\* Math.max(0, Math.min(size - 1, v))
KeepInBounds(v, size) == IF v < 0 THEN 0 ELSE IF v > size - 1 THEN size - 1 ELSE v

\* the test both updates make before they destroy the tile at (x, y)
CanDestroy(ts, x, y) ==
  /\ isInBounds(x, y)
  /\ ~isWater(ts[<<x, y>>]) /\ ~isEmpty(ts[<<x, y>>]) /\ ~isRubble(ts[<<x, y>>])

\* city.bulldoze(x, y), then startFire if the roll succeeds and the tile is
\* flammable after the bulldozing, otherwise the tile becomes rubble;
\* st = [tiles, buildings, fires]
DestroyTile(st, x, y, fireRoll) ==
  LET r == bulldoze(st.tiles, st.buildings, 0, x, y) IN
  IF fireRoll /\ isFlammable(r.tiles[<<x, y>>])
    THEN LET f == startFire(r.tiles, st.fires, x, y)
         IN [tiles |-> f.tiles, buildings |-> r.buildings, fires |-> f.fires]
    ELSE [tiles |-> [r.tiles EXCEPT ![<<x, y>>].type = RUBBLE],
          buildings |-> r.buildings, fires |-> st.fires]

\* the monster enters at the edge drawn (0 top, 1 right, 2 bottom, 3 left), at
\* the drawn x or y, heading into the map
triggerMonsterDisaster(edge, x, y) ==
  CASE edge = 0 -> [x |-> x, y |-> 0, dx |-> 0, dy |-> 1, hp |-> 50]
    [] edge = 1 -> [x |-> width - 1, y |-> y, dx |-> -1, dy |-> 0, hp |-> 50]
    [] edge = 2 -> [x |-> x, y |-> height - 1, dx |-> 0, dy |-> -1, hp |-> 50]
    [] edge = 3 -> [x |-> 0, y |-> y, dx |-> 1, dy |-> 0, hp |-> 50]

\* one update of the monster: turn = 0 keeps the direction, 1 .. 4 draws the
\* direction of that index; monster is <<>> when it has left
updateMonster(st, monster, fireRoll, turn) ==
  LET dirs == << <<-1, 0>>, <<1, 0>>, <<0, -1>>, <<0, 1>> >>
      hit == IF CanDestroy(st.tiles, monster.x, monster.y)
               THEN DestroyTile(st, monster.x, monster.y, fireRoll) ELSE st
      dx == IF turn = 0 THEN monster.dx ELSE dirs[turn][1]
      dy == IF turn = 0 THEN monster.dy ELSE dirs[turn][2]
      moved == [x |-> KeepInBounds(monster.x + dx, width),
                y |-> KeepInBounds(monster.y + dy, height),
                dx |-> dx, dy |-> dy, hp |-> monster.hp - 1]
  IN [tiles |-> hit.tiles, buildings |-> hit.buildings, fires |-> hit.fires,
      monster |-> IF moved.hp <= 0 THEN <<>> ELSE <<moved>>]

\* lifetimeRoll is Math.floor(Math.random() * 30)
triggerTornadoDisaster(x, y, dx, dy, lifetimeRoll) ==
  [x |-> x, y |-> y, dx |-> dx, dy |-> dy, lifetime |-> 30 + lifetimeRoll]

\* the 3 x 3 tiles around (x, y) from the i-th on, in the order of the loops;
\* hits: the positions whose destruction roll succeeds, fireRolls: those whose
\* fire roll succeeds
RECURSIVE TornadoDestroys(_, _, _, _, _, _)
TornadoDestroys(st, x, y, i, hits, fireRolls) ==
  IF i > 9 THEN st
  ELSE LET px == x + ((i - 1) % 3) - 1
           py == y + ((i - 1) \div 3) - 1
           next == IF CanDestroy(st.tiles, px, py) /\ <<px, py>> \in hits
                     THEN DestroyTile(st, px, py, <<px, py>> \in fireRolls) ELSE st
       IN TornadoDestroys(next, x, y, i + 1, hits, fireRolls)

\* a variant in which the tornado dies down one update later
updateTornado_OneMore(st, tornado, hits, fireRolls, newDx, newDy) ==
  LET hit == TornadoDestroys(st, tornado.x, tornado.y, 1, hits, fireRolls)
      dx == IF newDx = 0 THEN tornado.dx ELSE newDx
      dy == IF newDy = 0 THEN tornado.dy ELSE newDy
      moved == [x |-> KeepInBounds(tornado.x + dx, width),
                y |-> KeepInBounds(tornado.y + dy, height),
                dx |-> dx, dy |-> dy, lifetime |-> tornado.lifetime - 1]
  IN [tiles |-> hit.tiles, buildings |-> hit.buildings, fires |-> hit.fires,
      tornado |-> IF moved.lifetime < 0 THEN <<>> ELSE <<moved>>]

\* one update of the tornado: newDx and newDy are 0 to keep the component or
\* the -1 or 1 drawn; tornado is <<>> when it has died down
updateTornado(st, tornado, hits, fireRolls, newDx, newDy) ==
  LET hit == TornadoDestroys(st, tornado.x, tornado.y, 1, hits, fireRolls)
      dx == IF newDx = 0 THEN tornado.dx ELSE newDx
      dy == IF newDy = 0 THEN tornado.dy ELSE newDy
      moved == [x |-> KeepInBounds(tornado.x + dx, width),
                y |-> KeepInBounds(tornado.y + dy, height),
                dx |-> dx, dy |-> dy, lifetime |-> tornado.lifetime - 1]
  IN [tiles |-> hit.tiles, buildings |-> hit.buildings, fires |-> hit.fires,
      tornado |-> IF moved.lifetime <= 0 THEN <<>> ELSE <<moved>>]

----------------------------------------------------------------------------
(* Simulation: plane crash, UFO attack, earthquake, flood, minor disaster *)

\* a variant that tests for an empty tile only
CanDamage_WaterToo(ts, x, y) == isInBounds(x, y) /\ ~isEmpty(ts[<<x, y>>])

\* the test updatePlane, updateUFOs and triggerEarthquakeDisaster make before
\* they damage the tile at (x, y)
CanDamage(ts, x, y) ==
  isInBounds(x, y) /\ ~isWater(ts[<<x, y>>]) /\ ~isEmpty(ts[<<x, y>>])

\* the tiles among which triggerPlaneCrashDisaster draws the crash target: the
\* developed areas, or the whole map when there is none
PlaneTargets(ts) ==
  LET candidates == {p \in DOMAIN ts : isBuilding(ts[p]) \/ isZone(ts[p])} IN
  IF candidates # {} THEN candidates ELSE DOMAIN ts

\* the plane starts five tiles off an edge and flies two tiles per update
\* towards its target; eta is the number of updates after which it is within
\* two tiles of the target, which the drawn edge and start position fix
triggerPlaneCrashDisaster(target, eta) ==
  [targetX |-> target[1], targetY |-> target[2], eta |-> eta, crashed |-> FALSE]

crashPattern == << <<0, 0>>, <<-1, -1>>, <<1, -1>>, <<-1, 1>>, <<1, 1>> >>

\* the crash on the pattern's tiles from the i-th on; st = [tiles, buildings, fires]
RECURSIVE PlaneCrashes(_, _, _, _, _)
PlaneCrashes(st, x, y, i, fireRolls) ==
  IF i > Len(crashPattern) THEN st
  ELSE LET tx == x + crashPattern[i][1]
           ty == y + crashPattern[i][2]
           next == IF CanDamage(st.tiles, tx, ty)
                     THEN DestroyTile(st, tx, ty, <<tx, ty>> \in fireRolls) ELSE st
       IN PlaneCrashes(next, x, y, i + 1, fireRolls)

\* one update of the plane; plane is <<>> once the crashed plane is removed.
\* On its way to a target on the map the plane never is 20 tiles off the map.
updatePlane(st, plane, fireRolls) ==
  IF plane.crashed
    THEN [tiles |-> st.tiles, buildings |-> st.buildings, fires |-> st.fires, plane |-> <<>>]
  ELSE IF plane.eta > 1
    THEN [tiles |-> st.tiles, buildings |-> st.buildings, fires |-> st.fires,
          plane |-> <<[plane EXCEPT !.eta = @ - 1]>>]
  ELSE LET hit == PlaneCrashes(st, plane.targetX, plane.targetY, 1, fireRolls) IN
       [tiles |-> hit.tiles, buildings |-> hit.buildings, fires |-> hit.fires,
        plane |-> <<[plane EXCEPT !.eta = 0, !.crashed = TRUE]>>]

\* numUFOs is 3 + Math.floor(Math.random() * 3), lifetimeRoll is
\* Math.floor(Math.random() * 30); the position and the velocity of a UFO are
\* floats that drift at random, the tile under it is drawn in each update
triggerUFODisaster(ufos, numUFOs, lifetimeRoll) ==
  ufos \o [i \in 1 .. numUFOs |-> [lifetime |-> 40 + lifetimeRoll, attackCooldown |-> 0]]

\* city.bulldoze(x, y), then startFire if the roll succeeds, otherwise rubble
UfoDestroysTile(st, x, y, fireRoll) ==
  LET r == bulldoze(st.tiles, st.buildings, 0, x, y) IN
  IF fireRoll
    THEN LET f == startFire(r.tiles, st.fires, x, y)
         IN [tiles |-> f.tiles, buildings |-> r.buildings, fires |-> f.fires]
    ELSE [tiles |-> [r.tiles EXCEPT ![<<x, y>>].type = RUBBLE],
          buildings |-> r.buildings, fires |-> st.fires]

\* the attack on the 3 x 3 tiles around (x, y) from the i-th on
RECURSIVE UfoAttack(_, _, _, _, _, _)
UfoAttack(st, x, y, i, hits, fireRolls) ==
  IF i > 9 THEN st
  ELSE LET tx == x + ((i - 1) % 3) - 1
           ty == y + ((i - 1) \div 3) - 1
           next == IF CanDamage(st.tiles, tx, ty) /\ <<tx, ty>> \in hits
                     THEN UfoDestroysTile(st, tx, ty, <<tx, ty>> \in fireRolls) ELSE st
       IN UfoAttack(next, x, y, i + 1, hits, fireRolls)

\* updateUFOs from index i down to 1; at[i] is the tile under UFO i after its
\* move (off the map or on it), cooldownRoll is Math.floor(Math.random() * 3);
\* st = [tiles, buildings, fires, ufos]
RECURSIVE UfosFrom(_, _, _, _, _, _)
UfosFrom(st, i, at, hits, fireRolls, cooldownRoll) ==
  IF i = 0 THEN st
  ELSE
    LET ufo == st.ufos[i]
        cooled == ufo.attackCooldown - 1
        attacks == cooled <= 0 /\ isInBounds(at[i][1], at[i][2])
        hit == IF attacks THEN UfoAttack(st, at[i][1], at[i][2], 1, hits, fireRolls) ELSE st
        after == [lifetime |-> ufo.lifetime - 1,
                  attackCooldown |-> IF attacks THEN 3 + cooldownRoll ELSE cooled]
        ufos == IF after.lifetime <= 0
                  THEN SubSeq(st.ufos, 1, i - 1) \o SubSeq(st.ufos, i + 1, Len(st.ufos))
                  ELSE [st.ufos EXCEPT ![i] = after]
    IN UfosFrom([tiles |-> hit.tiles, buildings |-> hit.buildings, fires |-> hit.fires,
                 ufos |-> ufos], i - 1, at, hits, fireRolls, cooldownRoll)

updateUFOs(st, ufos, at, hits, fireRolls, cooldownRoll) ==
  UfosFrom([tiles |-> st.tiles, buildings |-> st.buildings, fires |-> st.fires,
            ufos |-> ufos], Len(ufos), at, hits, fireRolls, cooldownRoll)

\* triggerEarthquakeDisaster on the iterations that pass the damage roll, in
\* their order: pos is the drawn tile, fire is 0 when no fire starts, or the
\* index of the first neighbour that is flammable and passes its roll
RECURSIVE triggerEarthquakeDisaster(_, _)
triggerEarthquakeDisaster(st, quakes) ==
  IF quakes = <<>> THEN st
  ELSE
    LET x == Head(quakes).pos[1]
        y == Head(quakes).pos[2]
        fire == Head(quakes).fire
        next ==
          IF ~CanDamage(st.tiles, x, y) THEN st
          ELSE
            LET r == bulldoze(st.tiles, st.buildings, 0, x, y)
                rubble == [r.tiles EXCEPT ![<<x, y>>].type = RUBBLE]
                nx == IF fire = 0 THEN x ELSE x + FireDirs[fire][1]
                ny == IF fire = 0 THEN y ELSE y + FireDirs[fire][2]
            IN IF fire # 0 /\ isInBounds(nx, ny) /\ isFlammable(rubble[<<nx, ny>>])
                 THEN LET f == startFire(rubble, st.fires, nx, ny)
                      IN [tiles |-> f.tiles, buildings |-> r.buildings, fires |-> f.fires]
                 ELSE [tiles |-> rubble, buildings |-> r.buildings, fires |-> st.fires]
    IN triggerEarthquakeDisaster(next, Tail(quakes))

\* floodTiles: for the water tiles in scan order, their neighbours that are
\* not water and whose roll succeeds (rolls), from the k-th pair on
RECURSIVE FloodTilesFrom(_, _, _, _)
FloodTilesFrom(ts, waters, k, rolls) ==
  IF k > 4 * Len(waters) THEN <<>>
  ELSE LET w == waters[((k - 1) \div 4) + 1]
           d == FireDirs[((k - 1) % 4) + 1]
           n == <<w[1] + d[1], w[2] + d[2]>>
       IN (IF isInBounds(n[1], n[2]) /\ ~isWater(ts[n]) /\ n \in rolls THEN <<n>> ELSE <<>>)
            \o FloodTilesFrom(ts, waters, k + 1, rolls)

\* floodTiles.forEach: bulldoze, then the tile is flooded
RECURSIVE ApplyFlooding(_, _)
ApplyFlooding(st, ps) ==
  IF ps = <<>> THEN st
  ELSE LET r == bulldoze(st.tiles, st.buildings, 0, Head(ps)[1], Head(ps)[2]) IN
       ApplyFlooding([tiles |-> [r.tiles EXCEPT ![Head(ps)].type = FLOOD],
                      buildings |-> r.buildings, fires |-> st.fires], Tail(ps))

triggerFloodDisaster(st, rolls) ==
  ApplyFlooding(st, FloodTilesFrom(st.tiles,
                                   InScanOrder({p \in DOMAIN st.tiles : isWater(st.tiles[p])}),
                                   1, rolls))

\* updateDisasters: the floods recede on the tiles whose roll succeeds
recedeFloods(ts, rolls) ==
  [p \in DOMAIN ts |->
     IF isFlooded(ts[p]) /\ p \in rolls THEN [ts[p] EXCEPT !.type = EMPTY] ELSE ts[p]]

\* the airport and seaport tiles among which triggerMinorDisaster draws
MinorTargets(ts) == {p \in DOMAIN ts : ts[p].type \in {AIRPORT, SEAPORT}}

\* triggerMinorDisaster at the drawn target: lit is the first tile of the
\* 5 x 5 area that is flammable and passes its roll (<<>> when there is none)
triggerMinorDisaster(ts, fs, target, lit) ==
  IF lit # <<>> /\ lit \in Footprint(target[1] - 2, target[2] - 2, 5, 5) \cap DOMAIN ts
       /\ isFlammable(ts[lit])
    THEN startFire(ts, fs, lit[1], lit[2])
    ELSE [ok |-> FALSE, tiles |-> ts, fires |-> fs]

----------------------------------------------------------------------------
(* Simulation: the tick timer *)

\* setTimeout hands out an id that no pending timeout has and that is not the
\* handle still kept in tickTimer
NewTimerId(tm) ==
  CHOOSE i \in 1 .. Cardinality(tm.pending) + 2 :
    /\ i \notin tm.pending /\ i # tm.tickTimer
    /\ \A j \in 1 .. i - 1 : j \in tm.pending \/ j = tm.tickTimer

\* a variant that schedules without clearing the timeout it holds
scheduleNextTick_NoClear(tm) ==
  IF ~tm.isPaused /\ tm.speed > 0
    THEN [tm EXCEPT !.tickTimer = NewTimerId(tm), !.pending = @ \cup {NewTimerId(tm)}]
    ELSE tm

scheduleNextTick(tm) ==
  LET cleared == IF tm.tickTimer # 0 THEN [tm EXCEPT !.pending = @ \ {tm.tickTimer}] ELSE tm IN
  IF ~cleared.isPaused /\ cleared.speed > 0
    THEN [cleared EXCEPT !.tickTimer = NewTimerId(cleared),
                         !.pending = @ \cup {NewTimerId(cleared)}]
    ELSE cleared

start(tm) == scheduleNextTick([tm EXCEPT !.isPaused = FALSE])

\* a variant that sets the flag and leaves the timeout pending
pause_TimerKept(tm) == [tm EXCEPT !.isPaused = TRUE]

pause(tm) ==
  IF tm.tickTimer # 0
    THEN [tm EXCEPT !.isPaused = TRUE, !.pending = @ \ {tm.tickTimer}, !.tickTimer = 0]
    ELSE [tm EXCEPT !.isPaused = TRUE]

setSpeed(tm, speed) ==
  LET set == [tm EXCEPT !.speed = speed] IN
  IF ~set.isPaused /\ speed > 0 THEN scheduleNextTick(set)
  ELSE IF speed = 0 THEN pause(set)
  ELSE set

\* Game.setSpeed: pause, or setSpeed followed by start
Game_setSpeed(tm, speed) ==
  CASE speed = "pause" -> pause(tm)
    [] speed = "normal" -> start(setSpeed(tm, 1000))
    [] speed = "fast" -> start(setSpeed(tm, 500))
    [] speed = "ultra" -> start(setSpeed(tm, 100))

----------------------------------------------------------------------------
(* Simulation: calendar and scenario *)

\* the scenarios followed here, with the fields the simulation reads
ScenarioIds == {"detroit", "tokyo", "boston", "lasVegas"}

SCENARIOS(id) ==
  CASE id = "detroit" ->
         [year |-> 1972, duration |-> 10, goalType |-> "crime", goalValue |-> 20,
          scheduledDisasters |-> <<>>]
    [] id = "tokyo" ->
         [year |-> 1961, duration |-> 5, goalType |-> "population", goalValue |-> 100000,
          scheduledDisasters |-> <<[type |-> "monster", month |-> 6]>>]
    [] id = "boston" ->
         [year |-> 2010, duration |-> 5, goalType |-> "population", goalValue |-> 100000,
          scheduledDisasters |-> <<[type |-> "meltdown", month |-> 1]>>]
    [] id = "lasVegas" ->
         [year |-> 2096, duration |-> 10, goalType |-> "population", goalValue |-> 100000,
          scheduledDisasters |-> <<[type |-> "tornado", month |-> 6],
                                   [type |-> "tornado", month |-> 24],
                                   [type |-> "tornado", month |-> 48],
                                   [type |-> "tornado", month |-> 72]>>]
    [] id = "freeland" ->
         [year |-> 1999, duration |-> -1, goalType |-> "megalopolis", goalValue |-> 500000,
          scheduledDisasters |-> <<>>]

setScenario(cal, scenario) ==
  [cal EXCEPT !.scenario = <<scenario>>, !.year = scenario.year, !.month = 0,
              !.scenarioStartYear = scenario.year, !.scenarioMonthsElapsed = 0,
              !.scenarioComplete = FALSE, !.scenarioFailed = FALSE,
              !.triggeredDisasters = {}]

\* the start of tick: this.month++, with the turn of the year
AdvanceTime(cal) ==
  IF cal.month + 1 >= 12
    THEN [cal EXCEPT !.month = 0, !.year = @ + 1, !.ticks = @ + 1]
    ELSE [cal EXCEPT !.month = @ + 1, !.ticks = @ + 1]

\* (this.year - this.scenarioStartYear) * 12 + this.month
MonthsElapsed(cal) == (cal.year - cal.scenarioStartYear) * 12 + cal.month

\* CITY_CLASSES.METROPOLIS.minPop and CITY_CLASSES.MEGALOPOLIS.minPop
METROPOLIS_MIN_POP == 100000
MEGALOPOLIS_MIN_POP == 500000

\* st holds the simulation's population and crimeRate
checkScenarioGoal(scenario, st) ==
  CASE scenario.goalType = "population" -> st.population >= scenario.goalValue
    [] scenario.goalType = "metropolis" -> st.population >= METROPOLIS_MIN_POP
    [] scenario.goalType = "megalopolis" -> st.population >= MEGALOPOLIS_MIN_POP
    [] scenario.goalType = "crime" ->
         st.crimeRate # NaN /\ st.crimeRate < scenario.goalValue * StatUnit
    [] OTHER -> FALSE

\* a variant that takes every duration for a time limit
checkScenarioStatus_AnyDuration(cal, st) ==
  IF cal.scenario = <<>> \/ cal.scenarioComplete \/ cal.scenarioFailed
    THEN [calendar |-> cal, callback |-> "none"]
  ELSE
    LET scenario == cal.scenario[1]
        timed == [cal EXCEPT !.scenarioMonthsElapsed = MonthsElapsed(cal)]
        won == [calendar |-> [timed EXCEPT !.scenarioComplete = TRUE],
                callback |-> "onScenarioWin"]
    IN IF timed.scenarioMonthsElapsed >= scenario.duration * 12
         THEN IF checkScenarioGoal(scenario, st) THEN won
              ELSE [calendar |-> [timed EXCEPT !.scenarioFailed = TRUE],
                    callback |-> "onScenarioLose"]
       ELSE IF checkScenarioGoal(scenario, st) THEN won
       ELSE [calendar |-> timed, callback |-> "none"]

\* calendar: the calendar it leaves; callback: the callback it calls, if any
checkScenarioStatus(cal, st) ==
  IF cal.scenario = <<>> \/ cal.scenarioComplete \/ cal.scenarioFailed
    THEN [calendar |-> cal, callback |-> "none"]
  ELSE
    LET scenario == cal.scenario[1]
        timed == [cal EXCEPT !.scenarioMonthsElapsed = MonthsElapsed(cal)]
        won == [calendar |-> [timed EXCEPT !.scenarioComplete = TRUE],
                callback |-> "onScenarioWin"]
    IN IF scenario.duration > 0 /\ timed.scenarioMonthsElapsed >= scenario.duration * 12
         THEN IF checkScenarioGoal(scenario, st) THEN won
              ELSE [calendar |-> [timed EXCEPT !.scenarioFailed = TRUE],
                    callback |-> "onScenarioLose"]
       ELSE IF checkScenarioGoal(scenario, st) THEN won
       ELSE [calendar |-> timed, callback |-> "none"]

\* checkScheduledDisasters from the i-th entry on: the entries it triggers, in
\* order, given the keys already in triggeredDisasters
RECURSIVE ScheduledFrom(_, _, _)
ScheduledFrom(cal, keys, i) ==
  IF cal.scenario = <<>> THEN <<>>
  ELSE IF i > Len(cal.scenario[1].scheduledDisasters) THEN <<>>
  ELSE LET disaster == cal.scenario[1].scheduledDisasters[i]
           key == <<disaster.type, disaster.month>>
       IN IF cal.scenarioMonthsElapsed >= disaster.month /\ key \notin keys
            THEN <<disaster>> \o ScheduledFrom(cal, keys \cup {key}, i + 1)
            ELSE ScheduledFrom(cal, keys, i + 1)

\* the entries checkScheduledDisasters triggers, in order
checkScheduledDisasters(cal) == ScheduledFrom(cal, cal.triggeredDisasters, 1)

\* triggerScheduledDisaster for each entry of due in turn; draw holds the
\* random draws of the triggers. The grid effects of earthquake, flood, plane
\* and ufo are not followed. st = [tiles, buildings, fires, disasters]
RECURSIVE TriggerScheduled(_, _, _)
TriggerScheduled(st, due, draw) ==
  IF due = <<>> THEN st
  ELSE
    LET type == Head(due).type
        next ==
          CASE type = "monster" ->
                 [st EXCEPT !.disasters.monster =
                              <<triggerMonsterDisaster(draw.edge, draw.x, draw.y)>>,
                            !.disasters.monsterUpdates = 0]
            [] type = "tornado" ->
                 [st EXCEPT !.disasters.tornado =
                              <<triggerTornadoDisaster(draw.x, draw.y, draw.dx, draw.dy,
                                                       draw.lifetimeRoll)>>,
                            !.disasters.tornadoUpdates = 0,
                            !.disasters.tornadoLifetime = 30 + draw.lifetimeRoll]
            [] type = "meltdown" ->
                 IF nuclearPlants(st.tiles) = {} THEN st
                 ELSE LET plants == nuclearPlants(st.tiles)
                          plant == IF draw.plant \in plants THEN draw.plant
                                   ELSE CHOOSE p \in plants : TRUE
                          r == triggerNuclearMeltdown(st.tiles, st.buildings, st.fires, plant,
                                                      draw.roll)
                      IN [st EXCEPT !.tiles = r.tiles, !.buildings = r.buildings,
                                    !.fires = r.fires]
            [] OTHER -> st
    IN TriggerScheduled(next, Tail(due), draw)

----------------------------------------------------------------------------
(* State machine *)

InfraCount(ts) ==
  Cardinality({p \in DOMAIN ts : ts[p].type \in {ROAD, POWER_LINE, RAIL, PARK}})

\* generateTerrain: some water and forest tiles on the empty map
Terrain(w, h, water, forest) ==
  [p \in Positions(w, h) |->
     IF p \in water THEN [NewTile EXCEPT !.type = WATER]
     ELSE IF p \in forest THEN [NewTile EXCEPT !.type = FOREST]
     ELSE NewTile]

\* one placement of a scenario map, made on the ground `base` with building id `id`
Placement(base, c, id) ==
  CASE c[1] = "road" -> placeRoad(base, <<>>, id, c[2], c[3])
    [] c[1] \in ZoneTypes -> placeZone(base, <<>>, id, c[2], c[3], c[1])
    [] OTHER -> placeBuilding(base, <<>>, id, c[2], c[3], c[1])

PlacementFootprint(c) ==
  IF c[1] = "road" THEN {<<c[2], c[3]>>}
  ELSE IF c[1] \in ZoneTypes THEN Footprint(c[2], c[3], ZONE_SIZE, ZONE_SIZE)
  ELSE Footprint(c[2], c[3], BUILDING_SIZES(c[1]).width, BUILDING_SIZES(c[1]).height)

\* the placements a scenario map makes at construction: buildings and zones
\* first, then roads, all on separate buildable ground, so that each one
\* succeeds and changes only its own footprint; building ids run 1, 2, ...
Build(base, cmds) ==
  LET registered == {i \in 1 .. Len(cmds) : cmds[i][1] # "road"}
      covering(p) == {i \in 1 .. Len(cmds) : p \in PlacementFootprint(cmds[i])}
  IN [ok |-> TRUE,
      tiles |-> [p \in DOMAIN base |->
                   IF covering(p) = {} THEN base[p]
                   ELSE LET i == CHOOSE i \in covering(p) : TRUE
                        IN Placement(base, cmds[i], i).tiles[p]],
      buildings |-> [i \in registered |-> Placement(base, cmds[i], i).buildings[i]],
      nextBuildingId |-> Cardinality(registered) + 1]

\* new Budget(): the funding levels
NewFunding == [police |-> 100, fire |-> 100, transport |-> 100]

\* new Simulation(): activeDisasters, the timer fields, the calendar and the
\* scenario fields (scenario <<>> for null)
\* monsterUpdates and tornadoUpdates record the number of updateMonster and
\* updateTornado calls since the last trigger, tornadoLifetime the lifetime the
\* last trigger drew
NoDisasters ==
  [monster |-> <<>>, tornado |-> <<>>, plane |-> <<>>, ufos |-> <<>>,
   monsterUpdates |-> 0, tornadoUpdates |-> 0, tornadoLifetime |-> 0]
NewTimer == [isPaused |-> FALSE, speed |-> 1000, tickTimer |-> 0, pending |-> {}]
\* ticks records the number of ticks begun, log the scheduled disasters
\* triggered so far, each with the months elapsed at its tick
NewCalendar ==
  [year |-> 1900, month |-> 0, scenario |-> <<>>, scenarioStartYear |-> 0,
   scenarioMonthsElapsed |-> 0, scenarioComplete |-> FALSE, scenarioFailed |-> FALSE,
   triggeredDisasters |-> {}, ticks |-> 0, log |-> <<>>]

\* a city, its budget and its simulation, with the given funding levels,
\* active disasters, timer fields and calendar
InitWith(w, h, st, d, dm, fd, ds, tm, cal) ==
  /\ funding = fd
  /\ disasters = ds
  /\ timer = tm
  /\ calendar = cal
  /\ width = w
  /\ height = h
  /\ tiles = st.tiles
  /\ buildings = st.buildings
  /\ nextBuildingId = st.nextBuildingId
  /\ difficulty = d
  /\ funds = startingFunds(d)
  /\ stats = [totalPowerProduced |-> 0, totalPowerConsumed |-> 0, crimeRate |-> 0,
              pollutionLevel |-> 0, averageTraffic |-> 0, averageLandValue |-> 0,
              population |-> 0]
  /\ demand = dm
  /\ fires = <<>>
  /\ zoneScan = -1
  /\ cutoffQueue = {}
  /\ lastOp = "init"
  /\ ret = TRUE

\* a city (generated, scenario or loaded), its budget and its simulation
InitLoaded(w, h, st, d, dm) ==
  InitWith(w, h, st, d, dm, NewFunding, NoDisasters, NewTimer, NewCalendar)

\* a new game: the demand starts at DEMAND_FACTORS' base values (in hundredths)
InitCity(w, h, st, d) ==
  InitLoaded(w, h, st, d, [residential |-> 50, commercial |-> 30, industrial |-> 40])

InitGame(w, h, ts, d) ==
  InitCity(w, h, [ok |-> TRUE, tiles |-> ts, buildings |-> <<>>, nextBuildingId |-> 1], d)

\* no handler runs while the scan of updateZoneDevelopment is under way
Idle == zoneScan = -1

\* a city command called directly (map generation, disasters' callers)
CityCommand(r) ==
  /\ Idle
  /\ tiles' = r.tiles
  /\ buildings' = r.buildings
  /\ nextBuildingId' = r.nextBuildingId
  /\ lastOp' = "command"
  /\ ret' = r.ok
  /\ UNCHANGED <<funding, disasters, timer, calendar, width, height, funds, difficulty, stats, demand, fires, zoneScan, cutoffQueue>>

PlaceRoad(x, y) ==
  LET r == placeRoad(tiles, buildings, nextBuildingId, x, y) IN
  InfraCount(r.tiles) <= MaxInfra /\ CityCommand(r)

PlacePowerLine(x, y) ==
  LET r == placePowerLine(tiles, buildings, nextBuildingId, x, y) IN
  InfraCount(r.tiles) <= MaxInfra /\ CityCommand(r)

PlaceRail(x, y) ==
  LET r == placeRail(tiles, buildings, nextBuildingId, x, y) IN
  InfraCount(r.tiles) <= MaxInfra /\ CityCommand(r)

PlacePark(x, y) ==
  LET r == placePark(tiles, buildings, nextBuildingId, x, y) IN
  InfraCount(r.tiles) <= MaxInfra /\ CityCommand(r)

PlaceZone(x, y, zoneType) ==
  LET r == placeZone(tiles, buildings, nextBuildingId, x, y, zoneType) IN
  r.nextBuildingId <= MaxBuildingId + 1 /\ CityCommand(r)

PlaceBuilding(x, y, buildingType) ==
  LET r == placeBuilding(tiles, buildings, nextBuildingId, x, y, buildingType) IN
  r.nextBuildingId <= MaxBuildingId + 1 /\ CityCommand(r)

Bulldoze(x, y) ==
  CityCommand(bulldoze(tiles, buildings, nextBuildingId, x, y))

UseTool(tool, x, y) ==
  LET r == useTool(tiles, buildings, nextBuildingId, funds, tool, x, y) IN
  /\ Idle
  /\ r.nextBuildingId <= MaxBuildingId + 1
  /\ InfraCount(r.tiles) <= MaxInfra
  /\ tiles' = r.tiles
  /\ buildings' = r.buildings
  /\ nextBuildingId' = r.nextBuildingId
  /\ funds' = r.funds
  /\ lastOp' = "useTool"
  /\ ret' = r.ok
  /\ UNCHANGED <<funding, disasters, timer, calendar, width, height, difficulty, stats, demand, fires, zoneScan, cutoffQueue>>

UpdatePowerGrid ==
  LET s == PowerBfs(tiles, buildings) IN
  /\ Idle
  /\ tiles' = PoweredTiles(tiles, s)
  /\ stats' = [stats EXCEPT !.totalPowerProduced = s.totalPower,
                            !.totalPowerConsumed = s.powerConsumed]
  /\ cutoffQueue' = PendingQueue(s)
  /\ lastOp' = "updatePowerGrid"
  /\ ret' = TRUE
  /\ UNCHANGED <<funding, disasters, timer, calendar, width, height, buildings, nextBuildingId, funds, difficulty, demand, fires, zoneScan>>

UpdateRoadAccess ==
  /\ Idle
  /\ tiles' = updateRoadAccess(tiles, buildings)
  /\ lastOp' = "updateRoadAccess"
  /\ ret' = TRUE
  /\ UNCHANGED <<funding, disasters, timer, calendar, width, height, buildings, nextBuildingId, funds, difficulty, stats, demand,
                 fires, zoneScan, cutoffQueue>>

\* the main zone tiles the scan has not reached yet
ScanRemaining(ts, from) ==
  {p \in DOMAIN ts : ts[p].isMainTile /\ ts[p].zoneType # "null" /\ ScanIndex(p) >= from}

\* updateZoneDevelopment, one processed main tile per step; the step that finds
\* nothing left ends the pass
UpdateZoneDevelopmentStep ==
  LET from == IF zoneScan = -1 THEN 0 ELSE zoneScan
      rest == ScanRemaining(tiles, from)
  IN IF rest = {}
       THEN /\ zoneScan' = -1
            /\ lastOp' = "updateZoneDevelopment"
            /\ ret' = TRUE
            /\ UNCHANGED <<funding, disasters, timer, calendar, width, height, tiles, buildings, nextBuildingId, funds, difficulty,
                           stats, demand, fires, cutoffQueue>>
       ELSE LET p == CHOOSE p \in rest : \A q \in rest : ScanIndex(p) <= ScanIndex(q) IN
            \E roll \in BOOLEAN, rnd \in BOOLEAN :
              /\ tiles' = ZoneDevelopmentAt(tiles, buildings, demand, p, roll, rnd)
              /\ zoneScan' = ScanIndex(p) + 1
              /\ lastOp' = "updateZoneDevelopment"
              /\ ret' = TRUE
              /\ UNCHANGED <<funding, disasters, timer, calendar, width, height, buildings, nextBuildingId, funds, difficulty,
                             stats, demand, fires, cutoffQueue>>

\* the number of tiles that may burn or lie in rubble on a map of width w
DamageCap(w) == IF w = 1 THEN StripFires ELSE MaxFires

\* the tiles that burn or have burnt down
Damaged(ts) == {p \in DOMAIN ts : isBurning(ts[p]) \/ isRubble(ts[p])}

\* returns false when no tile is flammable; otherwise the random target is
\* followed for the candidates in FireTargets
TriggerFireDisaster ==
  LET candidates == {p \in DOMAIN tiles : isFlammable(tiles[p])} IN
  /\ Idle
  /\ Cardinality(Damaged(tiles)) < DamageCap(width)
  /\ IF candidates = {}
       THEN /\ lastOp' = "triggerFireDisaster"
            /\ ret' = FALSE
            /\ UNCHANGED <<tiles, fires>>
       ELSE \E target \in candidates \cap FireTargets :
              LET r == startFire(tiles, fires, target[1], target[2]) IN
              /\ tiles' = r.tiles
              /\ fires' = r.fires
              /\ lastOp' = "triggerFireDisaster"
              /\ ret' = TRUE
  /\ UNCHANGED <<funding, disasters, timer, calendar, width, height, buildings, nextBuildingId, funds, difficulty, stats, demand,
                 zoneScan, cutoffQueue>>

UpdateFires ==
  /\ Idle
  /\ fires # <<>>
  /\ \E choice \in [1 .. Len(fires) -> 0 .. 4] :
       LET r == updateFires(tiles, fires, choice) IN
       /\ Cardinality(Damaged(r.tiles)) <= DamageCap(width)
       /\ tiles' = r.tiles
       /\ fires' = r.fires
  /\ lastOp' = "updateFires"
  /\ ret' = TRUE
  /\ UNCHANGED <<funding, disasters, timer, calendar, width, height, buildings, nextBuildingId, funds, difficulty, stats, demand,
                 zoneScan, cutoffQueue>>

\* the tiles whose fire roll may succeed in a meltdown
MeltdownRolls == {<<0, 4>>, <<1, 5>>}

TriggerNuclearMeltdown ==
  /\ Idle
  /\ IF nuclearPlants(tiles) = {}
       THEN UNCHANGED <<tiles, buildings, fires>>
       ELSE \E plant \in nuclearPlants(tiles) : \E roll \in SUBSET MeltdownRolls :
              LET r == triggerNuclearMeltdown(tiles, buildings, fires, plant, roll) IN
              /\ Len(r.fires) <= MaxFires
              /\ tiles' = r.tiles
              /\ buildings' = r.buildings
              /\ fires' = r.fires
  /\ lastOp' = "triggerNuclearMeltdown"
  /\ ret' = TRUE
  /\ UNCHANGED <<funding, disasters, timer, calendar, width, height, nextBuildingId, funds, difficulty, stats, demand, zoneScan,
                 cutoffQueue>>

\* phase 2 of updatePollution alone: the passes of diffusePollution on the
\* grid phase 1 handed over (held in ret, in sixteenths); the last pass
\* returns the final grid
DiffusePollution ==
  /\ lastOp = "sourcing"
  /\ ret' = DiffusePasses(ret, POLLUTION_DIFFUSION.PASSES)
  /\ lastOp' = "diffusePollution"
  /\ UNCHANGED <<funding, disasters, timer, calendar, width, height, tiles, buildings, nextBuildingId, funds, difficulty, stats,
                 demand, fires, zoneScan, cutoffQueue>>

\* the tax rate is whatever the player last set
UpdateDemand ==
  LET zs == getZoneStats(tiles) IN
  /\ Idle
  /\ \E taxRate \in TaxRates :
       demand' = updateDemand(zs, stats.population, stats.pollutionLevel, difficulty, taxRate)
  /\ lastOp' = "updateDemand"
  /\ ret' = TRUE
  /\ UNCHANGED <<funding, disasters, timer, calendar, width, height, tiles, buildings, nextBuildingId, funds, difficulty, stats,
                 fires, zoneScan, cutoffQueue>>

\* the end of Simulation.tick: this.population = this.city.getTotalPopulation()
CountPopulation ==
  /\ Idle
  /\ stats' = [stats EXCEPT !.population = getTotalPopulation(tiles)]
  /\ lastOp' = "tick"
  /\ ret' = TRUE
  /\ UNCHANGED <<funding, disasters, timer, calendar, width, height, tiles, buildings, nextBuildingId, funds, difficulty, demand,
                 fires, zoneScan, cutoffQueue>>

UpdatePollution ==
  /\ Idle
  /\ tiles' = updatePollution(tiles)
  /\ stats' = [stats EXCEPT !.pollutionLevel =
                               Average(tiles', {p \in DOMAIN tiles' : isBuilding(tiles'[p])},
                                       "pollution")]
  /\ lastOp' = "updatePollution"
  /\ ret' = TRUE
  /\ UNCHANGED <<funding, disasters, timer, calendar, width, height, buildings, nextBuildingId, funds, difficulty, demand, fires,
                 zoneScan, cutoffQueue>>

\* ret: whether the pass completed; when it raises, the city-wide stats are
\* not computed
UpdateServices ==
  LET r == updateServices(tiles, funding) IN
  /\ Idle
  /\ tiles' = r.tiles
  /\ stats' = IF r.threw THEN stats ELSE ServiceStats(tiles', stats)
  /\ lastOp' = "updateServices"
  /\ ret' = ~r.threw
  /\ UNCHANGED <<funding, disasters, timer, calendar, width, height, buildings, nextBuildingId, funds, difficulty, demand, fires,
                 zoneScan, cutoffQueue>>

TriggerMonsterDisaster ==
  /\ Idle
  /\ \E edge \in 0 .. 3, x \in 0 .. width - 1, y \in 0 .. height - 1 :
       disasters' = [disasters EXCEPT !.monster = <<triggerMonsterDisaster(edge, x, y)>>,
                                      !.monsterUpdates = 0]
  /\ lastOp' = "triggerMonsterDisaster"
  /\ ret' = TRUE
  /\ UNCHANGED <<tiles, buildings, fires, funding, timer, calendar, width, height,
                 nextBuildingId, funds, difficulty, stats, demand, zoneScan, cutoffQueue>>

UpdateMonster ==
  /\ Idle
  /\ IF disasters.monster = <<>>
       THEN UNCHANGED <<tiles, buildings, fires, disasters>>
       ELSE \E fireRoll \in BOOLEAN, turn \in 0 .. 4 :
              LET r == updateMonster([tiles |-> tiles, buildings |-> buildings, fires |-> fires],
                                     disasters.monster[1], fireRoll, turn)
              IN /\ tiles' = r.tiles
                 /\ buildings' = r.buildings
                 /\ fires' = r.fires
                 /\ disasters' = [disasters EXCEPT !.monster = r.monster,
                                                !.monsterUpdates = @ + 1]
  /\ lastOp' = "updateMonster"
  /\ ret' = TRUE
  /\ UNCHANGED <<funding, timer, calendar, width, height, nextBuildingId, funds, difficulty,
                 stats, demand, zoneScan, cutoffQueue>>

\* the values of Math.floor(Math.random() * 30) followed: the least and the
\* greatest
LifetimeRolls == {0, 29}

TriggerTornadoDisaster ==
  /\ Idle
  /\ \E x \in 0 .. width - 1, y \in 0 .. height - 1, dx \in {-1, 1}, dy \in {-1, 1},
        lifetimeRoll \in LifetimeRolls :
       LET tornado == triggerTornadoDisaster(x, y, dx, dy, lifetimeRoll) IN
       disasters' = [disasters EXCEPT !.tornado = <<tornado>>, !.tornadoUpdates = 0,
                                      !.tornadoLifetime = tornado.lifetime]
  /\ lastOp' = "triggerTornadoDisaster"
  /\ ret' = TRUE
  /\ UNCHANGED <<tiles, buildings, fires, funding, timer, calendar, width, height,
                 nextBuildingId, funds, difficulty, stats, demand, zoneScan, cutoffQueue>>

UpdateTornado ==
  /\ Idle
  /\ IF disasters.tornado = <<>>
       THEN UNCHANGED <<tiles, buildings, fires, disasters>>
       ELSE \E hits \in SUBSET {p \in DOMAIN tiles : ~isWater(tiles[p]) /\ ~isEmpty(tiles[p])},
               newDx \in {-1, 0, 1}, newDy \in {-1, 0, 1} :
            \E fireRolls \in SUBSET hits :
              LET r == updateTornado([tiles |-> tiles, buildings |-> buildings, fires |-> fires],
                                     disasters.tornado[1], hits, fireRolls, newDx, newDy)
              IN /\ tiles' = r.tiles
                 /\ buildings' = r.buildings
                 /\ fires' = r.fires
                 /\ disasters' = [disasters EXCEPT !.tornado = r.tornado,
                                                !.tornadoUpdates = @ + 1]
  /\ lastOp' = "updateTornado"
  /\ ret' = TRUE
  /\ UNCHANGED <<funding, timer, calendar, width, height, nextBuildingId, funds, difficulty,
                 stats, demand, zoneScan, cutoffQueue>>

Start ==
  /\ Idle
  /\ timer' = start(timer)
  /\ lastOp' = "start"
  /\ ret' = TRUE
  /\ UNCHANGED <<tiles, buildings, fires, stats, disasters, funding, calendar, width, height,
                 nextBuildingId, funds, difficulty, demand, zoneScan, cutoffQueue>>

Pause ==
  /\ Idle
  /\ timer' = pause(timer)
  /\ lastOp' = "pause"
  /\ ret' = TRUE
  /\ UNCHANGED <<tiles, buildings, fires, stats, disasters, funding, calendar, width, height,
                 nextBuildingId, funds, difficulty, demand, zoneScan, cutoffQueue>>

SetSpeed(speed) ==
  /\ Idle
  /\ timer' = setSpeed(timer, speed)
  /\ lastOp' = "setSpeed"
  /\ ret' = TRUE
  /\ UNCHANGED <<tiles, buildings, fires, stats, disasters, funding, calendar, width, height,
                 nextBuildingId, funds, difficulty, demand, zoneScan, cutoffQueue>>

\* the speed menu of the game
GameSetSpeed(speed) ==
  /\ Idle
  /\ timer' = Game_setSpeed(timer, speed)
  /\ lastOp' = "Game.setSpeed"
  /\ ret' = TRUE
  /\ UNCHANGED <<tiles, buildings, fires, stats, disasters, funding, calendar, width, height,
                 nextBuildingId, funds, difficulty, demand, zoneScan, cutoffQueue>>

\* updateZoneDevelopment as one pass: the scan from index `from` on; rolls and
\* rnds hold the main tiles whose roll (whose zone class draw) succeeds
RECURSIVE ZoneScanFrom(_, _, _, _, _, _)
ZoneScanFrom(ts, bs, dm, from, rolls, rnds) ==
  LET rest == ScanRemaining(ts, from) IN
  IF rest = {} THEN ts
  ELSE LET p == CHOOSE p \in rest : \A q \in rest : ScanIndex(p) <= ScanIndex(q)
       IN ZoneScanFrom(ZoneDevelopmentAt(ts, bs, dm, p, p \in rolls, p \in rnds),
                       bs, dm, ScanIndex(p) + 1, rolls, rnds)

\* the tiles in the 3 x 3 reach of the tornado that are neither water nor empty
TornadoReach(ts, ds) ==
  IF ds.tornado = <<>> THEN {}
  ELSE {p \in DOMAIN ts : /\ p[1] - ds.tornado[1].x \in -1 .. 1
                          /\ p[2] - ds.tornado[1].y \in -1 .. 1
                          /\ ~isWater(ts[p]) /\ ~isEmpty(ts[p])}

\* whether an entry of one of the types is among the scheduled disasters due
IsDue(due, types) == \E i \in DOMAIN due : due[i].type \in types

\* the random draws of one tick: the zone rolls, the spread choice of every
\* fire, the draws of updateMonster and updateTornado, the waste tiles that
\* decay and the draws of the scheduled triggers in due
TickDraws(ts, fs, ds, due) ==
  [rolls : SUBSET ScanRemaining(ts, 0),
   rnds : SUBSET ScanRemaining(ts, 0),
   choice : [1 .. Len(fs) -> 0 .. 4],
   fireRoll : IF ds.monster = <<>> THEN {FALSE} ELSE BOOLEAN,
   turn : IF ds.monster = <<>> THEN {0} ELSE 0 .. 4,
   hits : SUBSET TornadoReach(ts, ds),
   tornadoFire : IF ds.tornado = <<>> THEN {FALSE} ELSE BOOLEAN,
   newDx : IF ds.tornado = <<>> THEN {0} ELSE {-1, 0, 1},
   newDy : IF ds.tornado = <<>> THEN {0} ELSE {-1, 0, 1},
   decay : SUBSET {p \in DOMAIN ts : isNuclearWaste(ts[p])},
   edge : IF IsDue(due, {"monster"}) THEN 0 .. 3 ELSE {0},
   x : IF IsDue(due, {"monster", "tornado"}) THEN 0 .. width - 1 ELSE {0},
   y : IF IsDue(due, {"monster", "tornado"}) THEN 0 .. height - 1 ELSE {0},
   dx : IF IsDue(due, {"tornado"}) THEN {-1, 1} ELSE {1},
   dy : IF IsDue(due, {"tornado"}) THEN {-1, 1} ELSE {1},
   lifetimeRoll : IF IsDue(due, {"tornado"}) THEN LifetimeRolls ELSE {0},
   plant : IF IsDue(due, {"meltdown"}) /\ nuclearPlants(ts) # {}
             THEN nuclearPlants(ts) ELSE {<<0, 0>>},
   roll : IF IsDue(due, {"meltdown"}) /\ nuclearPlants(ts) # {}
            THEN SUBSET MeltdownRolls ELSE {{}}]

\* the ticks followed in one behaviour
MaxTicks == 8

\* Budget.taxRate as the constructor sets it
DEFAULT_TAX_RATE == 7

\* The tick is written as a chain of steps, each handing what it computed to
\* the next. The last step: the population, the scenario checks and
\* scheduleNextTick. st = [tiles, buildings, fires, disasters] is the city
\* after updateDisasters.
TickEnd(s, id, in, bfs, dm, served, damaged, st) ==
  LET time == AdvanceTime(s.calendar)
      due == checkScheduledDisasters(time)
      counted == [ServiceStats(served.tiles,
                               [s.stats EXCEPT !.totalPowerProduced = bfs.totalPower,
                                               !.totalPowerConsumed = bfs.powerConsumed])
                    EXCEPT !.population = getTotalPopulation(st.tiles)]
      triggered == TriggerScheduled(st, due, in)
      logged ==
        [time EXCEPT
           !.triggeredDisasters = @ \cup {<<due[i].type, due[i].month>> : i \in DOMAIN due},
           !.log = @ \o [i \in DOMAIN due |->
                           [type |-> due[i].type, month |-> due[i].month,
                            at |-> MonthsElapsed(time)]]]
      status == checkScenarioStatus(logged, counted)
      fired == [s.timer EXCEPT !.pending = @ \ {id}]
  IN [tiles |-> triggered.tiles, buildings |-> triggered.buildings,
      fires |-> triggered.fires, disasters |-> triggered.disasters,
      stats |-> counted, demand |-> dm,
      timer |-> scheduleNextTick(IF status.callback = "none" THEN fired ELSE pause(fired)),
      calendar |-> status.calendar, cutoffQueue |-> PendingQueue(bfs),
      damaged |-> damaged, ret |-> TRUE]

\* updateDisasters after updateTornado: the decay of the nuclear waste
TickDecay(s, id, in, bfs, dm, served, damaged, monster, afterTornado) ==
  TickEnd(s, id, in, bfs, dm, served, damaged,
          [tiles |-> [p \in DOMAIN s.tiles |->
                        IF p \in in.decay /\ isNuclearWaste(afterTornado.tiles[p])
                          THEN [afterTornado.tiles[p] EXCEPT !.type = RUBBLE]
                          ELSE afterTornado.tiles[p]],
           buildings |-> afterTornado.buildings,
           fires |-> afterTornado.fires,
           disasters |->
             [s.disasters EXCEPT
                !.monster = monster,
                !.monsterUpdates = IF s.disasters.monster = <<>> THEN @ ELSE @ + 1,
                !.tornado = afterTornado.tornado,
                !.tornadoUpdates = IF s.disasters.tornado = <<>> THEN @ ELSE @ + 1]])

\* updateDisasters: updateTornado
TickTornado(s, id, in, bfs, dm, served, damaged, afterMonster) ==
  TickDecay(s, id, in, bfs, dm, served, damaged, afterMonster.monster,
            IF s.disasters.tornado = <<>>
              THEN [tiles |-> afterMonster.tiles, buildings |-> afterMonster.buildings,
                    fires |-> afterMonster.fires, tornado |-> <<>>]
              ELSE updateTornado([tiles |-> afterMonster.tiles,
                                  buildings |-> afterMonster.buildings,
                                  fires |-> afterMonster.fires],
                                 s.disasters.tornado[1], in.hits,
                                 IF in.tornadoFire THEN in.hits ELSE {}, in.newDx, in.newDy))

\* updateDisasters: updateMonster
TickMonster(s, id, in, bfs, dm, served, burnt) ==
  TickTornado(s, id, in, bfs, dm, served, Cardinality(Damaged(burnt.tiles)),
              IF s.disasters.monster = <<>>
                THEN [tiles |-> burnt.tiles, buildings |-> s.buildings,
                      fires |-> burnt.fires, monster |-> <<>>]
                ELSE updateMonster([tiles |-> burnt.tiles, buildings |-> s.buildings,
                                    fires |-> burnt.fires],
                                   s.disasters.monster[1], in.fireRoll, in.turn))

\* after updateServices: the tick ends there when it raised, and goes on with
\* updateDisasters and its updateFires otherwise
TickDisasters(s, id, in, bfs, dm, served) ==
  IF served.threw
    THEN [tiles |-> served.tiles, buildings |-> s.buildings, fires |-> s.fires,
          disasters |-> s.disasters,
          stats |-> [s.stats EXCEPT !.totalPowerProduced = bfs.totalPower,
                                    !.totalPowerConsumed = bfs.powerConsumed],
          demand |-> dm,
          timer |-> [s.timer EXCEPT !.pending = @ \ {id}],
          calendar |-> AdvanceTime(s.calendar), cutoffQueue |-> PendingQueue(bfs),
          damaged |-> 0, ret |-> FALSE]
    ELSE TickMonster(s, id, in, bfs, dm, served,
                     updateFires(served.tiles, s.fires, in.choice))

\* updateDemand and updateServices on the tiles updatePollution left
TickServices(s, id, in, bfs, polluted) ==
  TickDisasters(s, id, in, bfs,
                updateDemand(getZoneStats(polluted), s.stats.population,
                             s.stats.pollutionLevel, s.difficulty, DEFAULT_TAX_RATE),
                updateServices(polluted, s.funding))

\* updateRoadAccess, updateZoneDevelopment and updatePollution on the tiles
\* updatePowerGrid left
TickGrid(s, id, in, bfs) ==
  TickServices(s, id, in, bfs,
               updatePollution(
                 ZoneScanFrom(updateRoadAccess(PoweredTiles(s.tiles, bfs), s.buildings),
                              s.buildings, s.demand, 0, in.rolls, in.rnds)))

\* Simulation.tick, run by the timeout id, on the state s of the city, the
\* budget and the simulation, with the draws in: the calendar, the passes in
\* their order, the scenario checks and scheduleNextTick. updateTraffic,
\* updateLandValues, calculateVoterComplaints and the budget's processMonth
\* and processYear write traffic, landValue, the complaints and the funds,
\* which are not followed; updateTransportDeterioration returns at once at the
\* transport funding of 100; checkRandomDisaster is followed on the roll that
\* brings no disaster (the triggers are actions of their own). When
\* updateServices raises, the tick ends there: what the passes before it
\* wrote stays, nothing after it runs and no timeout is scheduled (ret is
\* FALSE).
tick(s, id, in) == TickGrid(s, id, in, PowerBfs(s.tiles, s.buildings))

\* the timeout id fires and runs the tick
Tick ==
  /\ Idle
  /\ calendar.ticks < MaxTicks
  /\ \E id \in timer.pending :
     \E in \in TickDraws(tiles, fires, disasters,
                         checkScheduledDisasters(AdvanceTime(calendar))) :
     \E next \in {tick([tiles |-> tiles, buildings |-> buildings, fires |-> fires,
                        disasters |-> disasters, stats |-> stats, demand |-> demand,
                        timer |-> timer, calendar |-> calendar, funding |-> funding,
                        difficulty |-> difficulty], id, in)} :
       /\ next.damaged <= DamageCap(width)
       /\ tiles' = next.tiles
       /\ buildings' = next.buildings
       /\ fires' = next.fires
       /\ disasters' = next.disasters
       /\ stats' = next.stats
       /\ demand' = next.demand
       /\ timer' = next.timer
       /\ calendar' = next.calendar
       /\ cutoffQueue' = next.cutoffQueue
       /\ ret' = next.ret
  /\ lastOp' = "Simulation.tick"
  /\ UNCHANGED <<funding, width, height, nextBuildingId, funds, difficulty, zoneScan>>

\* Game.saveCity followed by Game.loadCity of the file it wrote: the old
\* simulation is paused; the city goes through City.serialize and
\* City.deserialize; the budget's funds and difficulty and the simulation's
\* year, month, demand and stats are saved and assigned back; the new
\* Simulation has no scenario, no active disasters and population 0, and is
\* started
LoadCity ==
  LET city == CityDeserialize(CitySerialize(width, height, tiles, buildings, nextBuildingId)) IN
  /\ Idle
  /\ width' = city.width
  /\ height' = city.height
  /\ tiles' = city.tiles
  /\ buildings' = city.buildings
  /\ nextBuildingId' = city.nextBuildingId
  /\ fires' = <<>>
  /\ stats' = [stats EXCEPT !.population = 0]
  /\ lastOp' = "loadCity"
  /\ ret' = TRUE
  /\ disasters' = NoDisasters
  /\ timer' = start(NewTimer)
  /\ calendar' = [NewCalendar EXCEPT !.year = calendar.year, !.month = calendar.month,
                                     !.ticks = calendar.ticks, !.log = calendar.log]
  /\ UNCHANGED <<funds, difficulty, demand, zoneScan, cutoffQueue, funding>>

\* the parts of a save file whose deserialize can raise: City.deserialize and
\* Budget.deserialize read fields of their data; Simulation.deserialize
\* only passes its data to Object.assign, which raises on no value
MalformedParts == {"city", "budget"}

\* Game.loadCity of a file that parses and whose part is malformed; the file's
\* city is the new city of the same size. The old simulation is paused, the
\* parts before the malformed one are assigned, the error is caught and
\* reported (ret is FALSE).
LoadCityFails(part) ==
  LET city == CityDeserialize(CitySerialize(width, height, Terrain(width, height, {}, {}),
                                            <<>>, 1)) IN
  /\ Idle
  /\ timer' = pause(timer)
  /\ IF part = "city"
       THEN UNCHANGED <<width, height, tiles, buildings, nextBuildingId>>
       ELSE /\ width' = city.width
            /\ height' = city.height
            /\ tiles' = city.tiles
            /\ buildings' = city.buildings
            /\ nextBuildingId' = city.nextBuildingId
  /\ lastOp' = "loadCity"
  /\ ret' = FALSE
  /\ UNCHANGED <<fires, stats, disasters, calendar, funds, difficulty, demand, zoneScan,
                 cutoffQueue, funding>>

----------------------------------------------------------------------------------------------------------------------------------------
(* Spec: the city commands and the road-access pass on a small map.        *)

W == 6
H == 4
Anchors == {<<0, 0>>, <<3, 1>>, <<4, 2>>}
Cells == {<<3, 0>>, <<1, 3>>, <<2, 0>>, <<5, 0>>, <<-1, 0>>}

Init == InitGame(W, H, Terrain(W, H, {<<5, 0>>}, {<<0, 0>>}), "easy")

Next ==
  \/ \E c \in Cells : PlaceRoad(c[1], c[2])
  \/ \E c \in Cells : PlacePowerLine(c[1], c[2])
  \/ \E c \in Cells : PlaceRail(c[1], c[2])
  \/ \E c \in Cells : PlacePark(c[1], c[2])
  \/ \E a \in Anchors, z \in {"residential", "industrial"} : PlaceZone(a[1], a[2], z)
  \/ \E a \in Anchors, b \in {"coal-power", "police", "airport", "casino"} :
       PlaceBuilding(a[1], a[2], b)
  \/ \E c \in Cells \cup Anchors : Bulldoze(c[1], c[2])
  \/ UpdateRoadAccess

Spec == Init /\ [][Next]_vars

----------------------------------------------------------------------------------------------------------------------------------------
(* SpecFire: two coal plants with a gap between them and a road next to the  *)
(* second one; fires, bulldozes and the power-grid pass.                     *)

FireW == 10
FireH == 4
FireLayout == << <<"coal-power", 0, 0>>, <<"coal-power", 5, 0>>, <<"road", 9, 1>> >>
FireCells == {<<5, 0>>, <<8, 1>>, <<9, 1>>}

InitFire ==
  InitCity(FireW, FireH,
           Build(Terrain(FireW, FireH, {}, {}), FireLayout),
           "easy")

NextFire ==
  \/ TriggerFireDisaster
  \/ UpdateFires
  \/ UpdatePowerGrid
  \/ UpdateRoadAccess
  \/ \E c \in FireCells : Bulldoze(c[1], c[2])

SpecFire == InitFire /\ [][NextFire]_vars

----------------------------------------------------------------------------------------------------------------------------------------
(* SpecPower: a coal plant and a block of 3x3 zones large enough to use up   *)
(* its output, with or without a nuclear plant beside it.                    *)

ZoneColumns == 4
PowerW == 4 + ZONE_SIZE * ZoneColumns
PowerH == ZONE_SIZE * ((MaxZones + ZoneColumns) \div ZoneColumns)

\* the k-th zone of the block, k = 0, 1, ...
ZoneCommand(k) == <<"residential", 4 + ZONE_SIZE * (k % ZoneColumns), ZONE_SIZE * (k \div ZoneColumns)>>

PowerLayout(n, plants) == plants \o [i \in 1 .. n |-> ZoneCommand(i - 1)]

PowerZoneCounts == {MaxZones - 2, MaxZones - 1}
PowerPlantChoices ==
  { << <<"coal-power", 0, 0>> >>,
    << <<"coal-power", 0, 0>>, <<"nuclear-power", 0, 4>> >> }
PowerCells == {<<0, 0>>, <<4, 0>>, <<3, 8>>}

InitPower ==
  \E n \in PowerZoneCounts, plants \in PowerPlantChoices :
    InitCity(PowerW, PowerH,
             Build(Terrain(PowerW, PowerH, {}, {}), PowerLayout(n, plants)),
             "easy")

NextPower ==
  \/ UpdatePowerGrid
  \/ \E c \in PowerCells : Bulldoze(c[1], c[2])
  \/ \E c \in PowerCells : PlaceRoad(c[1], c[2])
  \/ \E c \in PowerCells : PlacePowerLine(c[1], c[2])

SpecPower == InitPower /\ [][NextPower]_vars

----------------------------------------------------------------------------------------------------------------------------------------
(* SpecGame: the player's tools on a small map, starting from the funds of   *)
(* the hard difficulty.                                                      *)

GameW == 4
GameH == 4
GameTools == {"pointer", "bulldozer", "rail", "residential", "coal-power", "nuclear-power", "casino"}
GameCells == {<<0, 0>>, <<3, 3>>, <<4, 0>>}

InitGameSpec == InitGame(GameW, GameH, Terrain(GameW, GameH, {}, {}), "hard")

NextGame == \E tool \in GameTools, c \in GameCells : UseTool(tool, c[1], c[2])

SpecGame == InitGameSpec /\ [][NextGame]_vars

----------------------------------------------------------------------------------------------------------------------------------------
(* SpecZone: a saved city loaded back: a coal plant, two zones of one type   *)
(* side by side with a road below each, at the levels, land values and       *)
(* demand the save holds; then zone development, the road-access pass and   *)
(* the bulldozing of a road.                                                 *)

ZoneW == 10
ZoneH == 4
ZoneA == <<4, 0>>
ZoneB == <<7, 0>>
\* plant tells whether the saved city has its power plant
ZoneLayout(z, plant) ==
  (IF plant THEN << <<"coal-power", 0, 0>> >> ELSE <<>>)
    \o << <<z, ZoneA[1], ZoneA[2]>>, <<z, ZoneB[1], ZoneB[2]>>,
          <<"road", 4, 3>>, <<"road", 7, 3>> >>
ZoneCells == {<<4, 3>>}
\* land value and pollution of the first zone's main tile, as saved
SavedLandValues == {<<39, 0>>, <<40, 0>>, <<150, 0>>, <<170, 20>>}
SavedNeighbourLandValues == {100, 150}
SavedDemand == {-100, 200}

\* Tile.deserialize over the 3x3 lot anchored at p: a zone of the given level,
\* with road access and the power the last updatePowerGrid gave it, whose main
\* tile carries the land value, the pollution and the class updateLandValues
\* gave it
LoadedZone(ts, p, lv, level, pol, pw) ==
  [q \in DOMAIN ts |->
     IF q \notin Footprint(p[1], p[2], ZONE_SIZE, ZONE_SIZE) THEN ts[q]
     ELSE LET t == [(IF level > 0 THEN develop(ts[q]) ELSE ts[q]) EXCEPT
                      !.level = level, !.powered = pw, !.roadAccess = TRUE]
          IN IF q = p
               THEN LET m == updateStats([t EXCEPT !.landValue = lv, !.pollution = pol])
                    IN [m EXCEPT !.zoneClass =
                          IF isIndustrial(m) THEN "low" ELSE calculateZoneClass(m)]
               ELSE t]

InitZone ==
  \E z \in ZoneTypes, lv \in SavedLandValues, lvB \in SavedNeighbourLandValues,
     d \in SavedDemand, pw \in BOOLEAN :
  \E la \in {0, ZONE_MAX_LEVELS(z) - 1} :
    LET built == Build(Terrain(ZoneW, ZoneH, {}, {}), ZoneLayout(z, pw))
        loaded == LoadedZone(LoadedZone(built.tiles, ZoneA, lv[1], la, lv[2], pw),
                             ZoneB, lvB, ZONE_MAX_LEVELS(z) - 2, 0, pw)
    IN InitLoaded(ZoneW, ZoneH, [built EXCEPT !.tiles = loaded], "easy",
                  [residential |-> d, commercial |-> d, industrial |-> d])

NextZone ==
  \/ UpdateZoneDevelopmentStep
  \/ UpdateRoadAccess
  \/ \E c \in ZoneCells : Bulldoze(c[1], c[2])

SpecZone == InitZone /\ [][NextZone]_vars

----------------------------------------------------------------------------------------------------------------------------------------
(* SpecBurn: a new city with a coal plant, one zone beside it and a road    *)
(* below the zone; fires break out and burn down while the simulation's     *)
(* passes run.                                                               *)

BurnW == 7
BurnH == 4
BurnZone == <<4, 0>>
BurnLayout(z) == << <<"coal-power", 0, 0>>, <<z, BurnZone[1], BurnZone[2]>>, <<"road", 4, 3>> >>

InitBurn ==
  \E z \in ZoneTypes :
    InitCity(BurnW, BurnH, Build(Terrain(BurnW, BurnH, {}, {}), BurnLayout(z)), "easy")

NextBurn ==
  \/ TriggerFireDisaster
  \/ UpdateFires
  \/ UpdatePowerGrid
  \/ UpdateRoadAccess
  \/ UpdateZoneDevelopmentStep

SpecBurn == InitBurn /\ [][NextBurn]_vars

----------------------------------------------------------------------------------------------------------------------------------------
(* SpecSave: a new city with a coal plant, a police station, one zone and a  *)
(* road; the simulation's passes run and the city is saved and loaded back.  *)

SaveW == 10
SaveH == 4
SaveLayout(z) ==
  << <<"coal-power", 0, 0>>, <<z, 4, 0>>, <<"police", 7, 0>>, <<"road", 4, 3>> >>

InitSave ==
  \E z \in ZoneTypes :
    InitCity(SaveW, SaveH, Build(Terrain(SaveW, SaveH, {}, {}), SaveLayout(z)), "easy")

NextSave ==
  \/ UpdatePowerGrid
  \/ UpdateRoadAccess
  \/ UpdateZoneDevelopmentStep
  \/ UpdateServices
  \/ LoadCity

SpecSave == InitSave /\ [][NextSave]_vars

----------------------------------------------------------------------------------------------------------------------------------------
(* SpecPollution: a power plant, with or without a zone below it; the passes *)
(* of the simulation run, the nuclear plant may melt down, and the corner of *)
(* its rubble may be bulldozed and a coal plant built from there.            *)

PollutionW == 7
PollutionH == 8
PollutionLayout(plant, z) ==
  IF z = "none" THEN << <<plant, 0, 0>>, <<"road", 0, 7>> >>
  ELSE << <<plant, 0, 0>>, <<z, 0, 4>>, <<"road", 0, 7>> >>
RubbleCell == <<3, 3>>

InitPollution ==
  \E plant \in {"coal-power", "nuclear-power"}, z \in {"residential", "industrial", "none"} :
    InitCity(PollutionW, PollutionH,
             Build(Terrain(PollutionW, PollutionH, {}, {}), PollutionLayout(plant, z)), "easy")

NextPollution ==
  \/ UpdatePowerGrid
  \/ UpdateRoadAccess
  \/ UpdateZoneDevelopmentStep
  \/ UpdatePollution
  \/ TriggerNuclearMeltdown
  \/ Bulldoze(RubbleCell[1], RubbleCell[2])
  \/ PlaceBuilding(RubbleCell[1], RubbleCell[2], "coal-power")

SpecPollution == InitPollution /\ [][NextPollution]_vars

----------------------------------------------------------------------------------------------------------------------------------------
(* SpecDiffuse: the diffusion passes on a grid with one source square.       *)

DiffuseW == 10
DiffuseH == 10
\* values phase 1 can leave in one square: 50, 60, 50 + 60, 250, the cap
SourceValues == {50, 60, 110, 250, 255}

InitDiffuse ==
  \E s \in Positions((DiffuseW + 1) \div 2, (DiffuseH + 1) \div 2), v \in SourceValues :
    /\ width = DiffuseW
    /\ height = DiffuseH
    /\ tiles = Terrain(DiffuseW, DiffuseH, {}, {})
    /\ buildings = <<>>
    /\ nextBuildingId = 1
    /\ difficulty = "easy"
    /\ funds = startingFunds("easy")
    /\ stats = [totalPowerProduced |-> 0, totalPowerConsumed |-> 0, crimeRate |-> 0,
                pollutionLevel |-> 0, averageTraffic |-> 0, averageLandValue |-> 0,
                population |-> 0]
    /\ demand = [residential |-> 50, commercial |-> 30, industrial |-> 40]
    /\ fires = <<>>
    /\ zoneScan = -1
    /\ cutoffQueue = {}
    /\ funding = NewFunding
    /\ disasters = NoDisasters
    /\ timer = NewTimer
    /\ calendar = NewCalendar
    /\ lastOp = "sourcing"
    /\ ret = [c \in Positions((DiffuseW + 1) \div 2, (DiffuseH + 1) \div 2) |->
                IF c = s THEN v * GridUnit ELSE 0]

NextDiffuse == DiffusePollution

SpecDiffuse == InitDiffuse /\ [][NextDiffuse]_vars

----------------------------------------------------------------------------------------------------------------------------------------
(* SpecDemand: a saved city of any difficulty loaded back: a commercial or   *)
(* industrial zone at its top level beside a residential zone at level 1 or  *)
(* at its top level; the pollution and demand passes run, the tick ends, and *)
(* the residential zone is bulldozed.                                        *)

DemandW == 6
DemandH == 3
WorkZone == <<0, 0>>
HomeZone == <<3, 0>>
DemandLayout(z) ==
  << <<z, WorkZone[1], WorkZone[2]>>, <<"residential", HomeZone[1], HomeZone[2]>> >>

InitDemand ==
  \E d \in Difficulties, z \in {"commercial", "industrial"} :
  \E lb \in {1, ZONE_MAX_LEVELS("residential")} :
    LET built == Build(Terrain(DemandW, DemandH, {}, {}), DemandLayout(z))
        loaded == LoadedZone(LoadedZone(built.tiles, WorkZone, 100, ZONE_MAX_LEVELS(z), 0, TRUE),
                             HomeZone, 100, lb, 0, TRUE)
    IN InitLoaded(DemandW, DemandH, [built EXCEPT !.tiles = loaded], d,
                  [residential |-> 50, commercial |-> 30, industrial |-> 40])

NextDemand ==
  \/ UpdateDemand
  \/ CountPopulation
  \/ UpdatePollution
  \/ Bulldoze(HomeZone[1], HomeZone[2])

SpecDemand == InitDemand /\ [][NextDemand]_vars

----------------------------------------------------------------------------
(* SpecServices: a loaded city with a police station, a fire station and a   *)
(* zone; the saved budget carries the funding percentages. The passes of the *)
(* simulation run and the police station may be bulldozed.                   *)

ServicesW == 9
ServicesH == 4
\* funding percentages of the saved budget: none, a radius under half a tile,
\* a radius of 7.5 tiles, a radius of 3 tiles, full
Fundings == {0, 3, 50, 20, 100}
PoliceStation == <<0, 0>>
FireStation == <<3, 0>>
ServicesLayout ==
  << <<"police", PoliceStation[1], PoliceStation[2]>>, <<"fire", FireStation[1], FireStation[2]>>,
     <<"residential", 6, 0>>, <<"road", 6, 3>> >>

InitServices ==
  \E pf \in Fundings, ff \in Fundings :
    InitWith(ServicesW, ServicesH, Build(Terrain(ServicesW, ServicesH, {}, {}), ServicesLayout),
             "easy", [residential |-> 50, commercial |-> 30, industrial |-> 40],
             [police |-> pf, fire |-> ff, transport |-> 100], NoDisasters, NewTimer, NewCalendar)

NextServices ==
  \/ UpdatePowerGrid
  \/ UpdateRoadAccess
  \/ UpdateZoneDevelopmentStep
  \/ UpdatePollution
  \/ UpdateServices
  \/ Bulldoze(PoliceStation[1], PoliceStation[2])

SpecServices == InitServices /\ [][NextServices]_vars

----------------------------------------------------------------------------
(* SpecMonster and SpecTornado: a small map with a water tile and a forest   *)
(* tile; a monster (a tornado) is triggered, also while one is under way,    *)
(* and updated tick after tick.                                              *)

DisasterW == 3
DisasterH == 2

InitDisaster ==
  InitGame(DisasterW, DisasterH, Terrain(DisasterW, DisasterH, {<<0, 0>>}, {<<1, 1>>}), "hard")

NextMonster == TriggerMonsterDisaster \/ UpdateMonster

SpecMonster == InitDisaster /\ [][NextMonster]_vars

NextTornado == TriggerTornadoDisaster \/ UpdateTornado

SpecTornado == InitDisaster /\ [][NextTornado]_vars

----------------------------------------------------------------------------
(* SpecTrigger: a nuclear plant on an otherwise empty map; fires and         *)
(* meltdowns are triggered, fires burn, and the plant may be bulldozed and   *)
(* built again.                                                              *)

TriggerW == 9
TriggerH == 4
ReactorSite == <<5, 0>>

InitTrigger ==
  InitCity(TriggerW, TriggerH,
           Build(Terrain(TriggerW, TriggerH, {}, {}),
                 << <<"nuclear-power", ReactorSite[1], ReactorSite[2]>> >>), "hard")

NextTrigger ==
  \/ TriggerFireDisaster
  \/ TriggerNuclearMeltdown
  \/ UpdateFires
  \/ Bulldoze(ReactorSite[1], ReactorSite[2])
  \/ PlaceBuilding(ReactorSite[1], ReactorSite[2], "nuclear-power")

SpecTrigger == InitTrigger /\ [][NextTrigger]_vars

----------------------------------------------------------------------------
(* SpecTimer: a small city in sandbox mode or in a scenario; the simulation  *)
(* is started, paused and set to another speed while its timer fires.        *)

TimerW == 2
TimerH == 2
Speeds == {0, 100, 500, 1000}
SpeedNames == {"pause", "normal", "fast", "ultra"}

\* Game.init (sandbox) or Game.startScenario before simulation.start()
InitTimer ==
  \E id \in ScenarioIds \cup {"none"} :
    InitWith(TimerW, TimerH,
             [ok |-> TRUE, tiles |-> Terrain(TimerW, TimerH, {<<0, 0>>}, {<<1, 1>>}),
              buildings |-> <<>>, nextBuildingId |-> 1],
             "hard", [residential |-> 50, commercial |-> 30, industrial |-> 40],
             NewFunding, NoDisasters, NewTimer,
             IF id = "none" THEN NewCalendar ELSE setScenario(NewCalendar, SCENARIOS(id)))

NextTimer ==
  \/ Start
  \/ Pause
  \/ \E speed \in Speeds : SetSpeed(speed)
  \/ \E speed \in SpeedNames : GameSetSpeed(speed)
  \/ Tick

SpecTimer == InitTimer /\ [][NextTimer]_vars

----------------------------------------------------------------------------
(* SpecGrow: a loaded city with a coal plant, one zone beside it and a road *)
(* below the zone; the simulation ticks while the plant and the road are    *)
(* bulldozed.                                                               *)

GrowW == 7
GrowH == 4
GrowZone == <<4, 0>>
GrowRoad == <<4, 3>>
GrowLayout(z) ==
  << <<"coal-power", 0, 0>>, <<z, GrowZone[1], GrowZone[2]>>, <<"road", GrowRoad[1], GrowRoad[2]>> >>
\* the demand the save holds, for each zone type
GrowDemand == {-1, 200}

\* Game.loadCity: the loaded simulation is started at once
InitGrow ==
  \E z \in ZoneTypes, d \in GrowDemand, level \in {0, 1} :
    LET built == Build(Terrain(GrowW, GrowH, {}, {}), GrowLayout(z))
        loaded == LoadedZone(built.tiles, GrowZone, 150, level, 0, TRUE)
    IN InitWith(GrowW, GrowH, [built EXCEPT !.tiles = loaded], "easy",
                [residential |-> d, commercial |-> d, industrial |-> d],
                NewFunding, NoDisasters, start(NewTimer), NewCalendar)

NextGrow ==
  \/ Tick
  \/ Bulldoze(0, 0)
  \/ Bulldoze(GrowRoad[1], GrowRoad[2])

SpecGrow == InitGrow /\ [][NextGrow]_vars

----------------------------------------------------------------------------
(* SpecFlame: a new city that is a strip of forest one tile wide; fires     *)
(* break out, spread and burn down, before and after the services pass has  *)
(* set the fire risk.                                                       *)

FlameW == 1
FlameH == 4

InitFlame ==
  InitGame(FlameW, FlameH,
           Terrain(FlameW, FlameH, {}, {<<0, y>> : y \in 0 .. FlameH - 1}), "easy")

NextFlame ==
  \/ TriggerFireDisaster
  \/ UpdateFires
  \/ UpdateServices

SpecFlame == InitFlame /\ [][NextFlame]_vars

----------------------------------------------------------------------------
(* SpecLoad: a new city that is a strip one tile wide with two forest tiles; *)
(* its simulation ticks, a road is laid, a fire breaks out and files are    *)
(* loaded, whole or with a malformed part.                                  *)

LoadW == 1
LoadH == 4
LoadRoad == <<0, 0>>

InitLoad == InitGame(LoadW, LoadH, Terrain(LoadW, LoadH, {}, {<<0, 2>>, <<0, 3>>}), "easy")

NextLoad ==
  \/ Start
  \/ Tick
  \/ PlaceRoad(LoadRoad[1], LoadRoad[2])
  \/ TriggerFireDisaster
  \/ LoadCity
  \/ \E part \in MalformedParts : LoadCityFails(part)

SpecLoad == InitLoad /\ [][NextLoad]_vars

----------------------------------------------------------------------------
(* SpecRebuild: a new city with one zone; a fire burns a corner of the zone *)
(* down, the rubble is bulldozed, a road is laid there and the zone is      *)
(* bulldozed.                                                               *)

RebuildW == 3
RebuildH == 4
RebuildZone == <<0, 1>>
\* the corner of the zone where the fire starts, and a tile in its middle
RebuildCells == {<<0, 3>>, <<1, 2>>}

InitRebuild ==
  \E z \in ZoneTypes :
    InitCity(RebuildW, RebuildH,
             Build(Terrain(RebuildW, RebuildH, {}, {}),
                   << <<z, RebuildZone[1], RebuildZone[2]>> >>), "easy")

NextRebuild ==
  \/ TriggerFireDisaster
  \/ UpdateFires
  \/ UpdateServices
  \/ \E c \in RebuildCells : Bulldoze(c[1], c[2])
  \/ \E c \in RebuildCells : PlaceRoad(c[1], c[2])

SpecRebuild == InitRebuild /\ [][NextRebuild]_vars

----------------------------------------------------------------------------------------------------------------------------------------
(* Properties of the road-access pass and of the city commands (Spec).       *)

\* the anchor tile of a registry entry
AnchorOf(b) == <<b.x, b.y>>

\* some road or rail tile touches one of the four sides of b's footprint
SideAdjacentRoad(ts, b) ==
  \E p \in DOMAIN ts :
    /\ providesRoadAccess(ts[p])
    /\ \/ p[1] \in b.x .. b.x + b.width - 1 /\ p[2] \in {b.y - 1, b.y + b.height}
       \/ p[2] \in b.y .. b.y + b.height - 1 /\ p[1] \in {b.x - 1, b.x + b.width}

\* a registry entry for a zone lot or a developed zone
IsZoneEntry(ts, b) == isZone(ts[AnchorOf(b)]) \/ isBuilding(ts[AnchorOf(b)])

\* C4 as stated: after updateRoadAccess the main tile of every registered
\* building, special buildings included, has roadAccess exactly when a road or
\* rail tile touches a side of its footprint.
C4_AnyBuilding ==
  lastOp = "updateRoadAccess" =>
    \A id \in DOMAIN buildings :
      tiles[AnchorOf(buildings[id])].roadAccess <=> SideAdjacentRoad(tiles, buildings[id])

\* C4 amended: after updateRoadAccess the main tile of every registered zone
\* lot or developed zone has roadAccess exactly when a road or rail tile
\* touches a side of its footprint (corner cells do not count); the main tile
\* of any other registered building keeps the roadAccess it had before.
C4_ZonesOnly ==
  [][lastOp' = "updateRoadAccess" =>
       \A id \in DOMAIN buildings' :
         LET b == buildings'[id] IN
         IF IsZoneEntry(tiles', b) /\ tiles'[AnchorOf(b)].isMainTile
           THEN tiles'[AnchorOf(b)].roadAccess <=> SideAdjacentRoad(tiles', b)
           ELSE tiles'[AnchorOf(b)].roadAccess = tiles[AnchorOf(b)].roadAccess]_vars

\* a zone whose main tile got road access from a tile that is not next to the
\* main tile itself, and a special building with a road at its side
C4_Witness ==
  lastOp = "updateRoadAccess" /\ \E id \in DOMAIN buildings :
    LET b == buildings[id] IN
    /\ IsZoneEntry(tiles, b)
    /\ tiles[AnchorOf(b)].roadAccess
    /\ SideAdjacentRoad(tiles, b)
    /\ ~zoneHasRoadAccess(tiles, b.x, b.y, 1, 1)
    /\ \E other \in DOMAIN buildings :
         /\ ~IsZoneEntry(tiles, buildings[other])
         /\ SideAdjacentRoad(tiles, buildings[other])
         /\ ~tiles[AnchorOf(buildings[other])].roadAccess

\* C5: after updateRoadAccess every tile that carries a registered building's
\* id has the same roadAccess as that building's anchor tile.
C5_SameAsAnchor ==
  lastOp = "updateRoadAccess" =>
    \A p \in DOMAIN tiles :
      tiles[p].buildingId \in DOMAIN buildings =>
        tiles[p].roadAccess = tiles[AnchorOf(buildings[tiles[p].buildingId])].roadAccess

\* a registered building all of whose nine tiles report road access
C5_Witness ==
  lastOp = "updateRoadAccess" /\ \E id \in DOMAIN buildings :
    LET b == buildings[id] IN
    /\ tiles[AnchorOf(b)].roadAccess
    /\ \A p \in Footprint(b.x, b.y, b.width, b.height) :
         tiles[p].buildingId = id /\ tiles[p].roadAccess
    /\ Cardinality(Footprint(b.x, b.y, b.width, b.height)) = ZONE_SIZE * ZONE_SIZE

\* C7: a city command that returns false leaves every tile, the registry and
\* nextBuildingId as they were.
C7_RejectedChangesNothing ==
  [][lastOp' = "command" /\ ~ret' =>
       /\ tiles' = tiles
       /\ buildings' = buildings
       /\ nextBuildingId' = nextBuildingId]_vars

\* a command was rejected in a city that already holds a building
C7_Witness == lastOp = "command" /\ ~ret /\ DOMAIN buildings # {}

----------------------------------------------------------------------------------------------------------------------------------------
(* Properties of the power grid and of the building registry under fire      *)
(* (SpecFire).                                                               *)

\* the tiles of the footprints of the registered power plants
PlantFootprintTiles(ts, bs) ==
  UNION {Footprint(bs[id].x, bs[id].y, bs[id].width, bs[id].height) :
           id \in {i \in DOMAIN bs : bs[i].type \in {"coal-power", "nuclear-power"}}}

\* the tiles joined to the set S by 4-adjacent power-conducting tiles
RECURSIVE JoinedTo(_, _)
JoinedTo(ts, S) ==
  LET more == {p \in DOMAIN ts \ S :
                 /\ conductsPower(ts[p])
                 /\ \E q \in S : (p[1] - q[1]) * (p[1] - q[1]) + (p[2] - q[2]) * (p[2] - q[2]) = 1}
  IN IF more = {} THEN S ELSE JoinedTo(ts, S \cup more)

\* the conducting tiles joined to a tile of a power-plant footprint
ConnectedToPlants(ts, bs) ==
  JoinedTo(ts, {p \in PlantFootprintTiles(ts, bs) : conductsPower(ts[p])})

ZoneTilesIn(ts, S) == {p \in S : isZone(ts[p]) \/ isBuilding(ts[p])}

\* C1: after updatePowerGrid on a grid where fewer zone tiles are connected to
\* plants than the plants produce, a tile that is not a plant tile is powered
\* exactly when it conducts power and is joined to a tile of a power-plant
\* footprint by 4-adjacent conducting tiles.
C1_PoweredIffConnected ==
  lastOp = "updatePowerGrid" =>
    LET conn == ConnectedToPlants(tiles, buildings) IN
    Cardinality(ZoneTilesIn(tiles, conn)) < stats.totalPowerProduced =>
      \A p \in DOMAIN tiles :
        ~isPowerPlant(tiles[p]) => (tiles[p].powered <=> conductsPower(tiles[p]) /\ p \in conn)

\* C6: every registry entry has all tiles of its footprint holding its id, and
\* exactly the anchor among them is a main tile.
C6_RegistryMatchesTiles ==
  \A id \in DOMAIN buildings :
    LET b == buildings[id] IN
    \A p \in Footprint(b.x, b.y, b.width, b.height) :
      /\ p \in DOMAIN tiles
      /\ tiles[p].buildingId = id
      /\ tiles[p].isMainTile <=> p = AnchorOf(b)

----------------------------------------------------------------------------------------------------------------------------------------
(* Properties of the power grid at the output cap (SpecPower).                *)

\* the pass ended because the powered zone tiles used up the plants' output
CapReached == stats.totalPowerProduced > 0 /\ stats.totalPowerConsumed >= stats.totalPowerProduced

\* C2 as stated: when the count of powered consuming tiles reaches the total
\* output, every conducting tile still in the queue ends up powered.
C2_QueuedStillPowered ==
  lastOp = "updatePowerGrid" /\ CapReached =>
    \A p \in cutoffQueue : conductsPower(tiles[p]) => tiles[p].powered

\* C2 amended: when the count of powered consuming tiles reaches the total
\* output the loop ends at once, and every tile still waiting in the queue that
\* is not a plant tile is left with powered = false.
C2_QueuedLeftUnpowered ==
  lastOp = "updatePowerGrid" /\ CapReached =>
    \A p \in cutoffQueue : ~isPowerPlant(tiles[p]) => ~tiles[p].powered

\* the cap was reached with conducting tiles still waiting in the queue
C2_Witness ==
  /\ lastOp = "updatePowerGrid"
  /\ CapReached
  /\ \E p \in cutoffQueue : conductsPower(tiles[p]) /\ ~isPowerPlant(tiles[p])

\* the anchor tiles of the standing plants of one tile type
PlantAnchors(ts, type) == {p \in DOMAIN ts : ts[p].type = type /\ ts[p].isMainTile}

\* C3: after updatePowerGrid the consumed total is the number of powered zone
\* and zone-building tiles, it never exceeds the produced total, which is 200
\* per coal plant plus 500 per nuclear plant, and with no plant no tile other
\* than a plant tile is powered.
C3_ConsumedWithinProduced ==
  lastOp = "updatePowerGrid" =>
    /\ stats.totalPowerConsumed
         = Cardinality({p \in ZoneTilesIn(tiles, DOMAIN tiles) : tiles[p].powered})
    /\ stats.totalPowerConsumed <= stats.totalPowerProduced
    /\ stats.totalPowerProduced
         = 200 * Cardinality(PlantAnchors(tiles, COAL_POWER))
           + 500 * Cardinality(PlantAnchors(tiles, NUCLEAR_POWER))
    /\ PlantAnchors(tiles, COAL_POWER) \cup PlantAnchors(tiles, NUCLEAR_POWER) = {} =>
         \A p \in DOMAIN tiles : ~isPowerPlant(tiles[p]) => ~tiles[p].powered

\* the zones used up the whole output of the plants
C3_Witness ==
  /\ lastOp = "updatePowerGrid"
  /\ stats.totalPowerProduced > 0
  /\ stats.totalPowerConsumed = stats.totalPowerProduced
  /\ \E p \in ZoneTilesIn(tiles, DOMAIN tiles) : ~tiles[p].powered

----------------------------------------------------------------------------------------------------------------------------------------
(* Properties of Game.useTool (SpecGame).                                     *)

\* C8: in every call of Game.useTool the funds change exactly when the city
\* command returned success, and then they drop by the tool's cost; with funds
\* below the cost nothing is carried out, and the funds never go below zero.
C8_FundsFollowSuccess ==
  [][\A tool \in GameTools, c \in GameCells :
       UseTool(tool, c[1], c[2]) =>
         /\ funds' # funds <=> ret'
         /\ ret' => funds' = funds - TOOL_COSTS(tool)
         /\ funds < TOOL_COSTS(tool) =>
              ~ret' /\ tiles' = tiles /\ buildings' = buildings
                    /\ nextBuildingId' = nextBuildingId
         /\ funds' >= 0]_vars

\* a tool use that succeeded and took the funds to exactly zero
C8_Witness == lastOp = "useTool" /\ ret /\ funds = 0 /\ DOMAIN buildings # {}

----------------------------------------------------------------------------------------------------------------------------------------
(* Properties of zone development (SpecZone).                                 *)

\* the main tiles of zones and developed zones
ZoneMainTiles(ts) == {p \in DOMAIN ts : ts[p].isMainTile /\ ts[p].zoneType \in ZoneTypes}

\* the top level of the zone at p
TopLevel(ts, p) == ZONE_MAX_LEVELS(ts[p].zoneType)

\* a main tile exactly three tiles from p in a cardinal direction that has p's
\* zone type, is one level below the top and is of high class
HighNeighbourBelowTop(ts, p) ==
  \E q \in DOMAIN ts :
    /\ (q[1] = p[1] /\ (q[2] - p[2] = 3 \/ p[2] - q[2] = 3))
         \/ (q[2] = p[2] /\ (q[1] - p[1] = 3 \/ p[1] - q[1] = 3))
    /\ ts[q].isMainTile
    /\ ts[q].zoneType = ts[p].zoneType
    /\ ts[q].level = TopLevel(ts, p) - 1
    /\ ts[q].zoneClass = "high"

\* C9: a residential or commercial zone goes from the level below the top to
\* the top level only if, at that moment, its main tile is of high class and a
\* main tile three tiles away in a cardinal direction has the same zone type,
\* is one level below the top and is of high class; an industrial zone below
\* its top level is never held back by canZoneGrow.
C9_TopLevelGate ==
  [][\A p \in ZoneMainTiles(tiles) :
       /\ (/\ tiles[p].zoneType \in {"residential", "commercial"}
           /\ tiles[p].level = TopLevel(tiles, p) - 1
           /\ tiles'[p].level = TopLevel(tiles, p))
            => tiles[p].zoneClass = "high" /\ HighNeighbourBelowTop(tiles, p)
       /\ (tiles[p].zoneType = "industrial" /\ tiles[p].level < TopLevel(tiles, p))
            => canZoneGrow(tiles, p)]_vars

\* a residential or commercial zone has just reached its top level
C9_Witness ==
  /\ lastOp = "updateZoneDevelopment"
  /\ \E p \in ZoneMainTiles(tiles) :
       /\ tiles[p].zoneType \in {"residential", "commercial"}
       /\ tiles[p].level = TopLevel(tiles, p)
       /\ p = ZoneA

\* C10: a commercial building never goes from level N to level N+1, for N+1
\* from 2 to 5, while its effective land value is below the requirement of
\* level N+1 (40, 80, 120, 160).
C10_CommercialLandValueGate ==
  [][\A p \in ZoneMainTiles(tiles) :
       (/\ tiles[p].zoneType = "commercial"
        /\ tiles'[p].level = tiles[p].level + 1
        /\ tiles'[p].level \in 2 .. 5)
         => getEffectiveLandValue(tiles[p])
              >= COMMERCIAL_LAND_VALUE_REQUIREMENTS(tiles'[p].level)]_vars

\* C11: during zone development the level of a developed zone goes down only
\* when its main tile is unpowered, and then by exactly one and not below 0; a
\* powered main tile, with or without road access, never loses a level.
C11_DecayOnlyUnpowered ==
  [][lastOp' = "updateZoneDevelopment" =>
       \A p \in ZoneMainTiles(tiles) :
         tiles'[p].level < tiles[p].level =>
           /\ ~tiles[p].powered
           /\ isBuilding(tiles[p])
           /\ tiles'[p].level = tiles[p].level - 1
           /\ tiles'[p].level >= 0]_vars

\* an unpowered developed zone has lost every level it had
C11_Witness ==
  /\ lastOp = "updateZoneDevelopment"
  /\ isBuilding(tiles[ZoneA]) /\ tiles[ZoneA].level = 0 /\ ~tiles[ZoneA].powered


\* C12: every tile's level lies between 0 and the top level of its zone type
\* (residential 9, commercial 5, industrial 4), and is 0 on a tile that has no
\* zone type.
C12_LevelInRange ==
  \A p \in DOMAIN tiles :
    /\ tiles[p].level >= 0
    /\ tiles[p].level <= (IF tiles[p].zoneType = "null" THEN 0
                          ELSE ZONE_MAX_LEVELS(tiles[p].zoneType))

\* the population and the jobs the claim lists for each level, from level 0 on
ListedPopulation == <<0, 8, 24, 64, 128, 256, 512, 768, 1280, 1920>>
ListedCommercialJobs == <<0, 392, 784, 1176, 1568, 1960>>
ListedIndustrialJobs == <<0, 160, 320, 480, 640>>

\* C13: the main tile of every zone and of every developed zone holds the
\* population and the jobs listed for its type and its level: residential the
\* listed population and no jobs, commercial and industrial the listed jobs
\* and no population.
C13_StatsMatchLevel ==
  \A p \in DOMAIN tiles :
    LET t == tiles[p] IN
    t.isMainTile /\ (isZone(t) \/ isBuilding(t)) =>
      /\ isResidential(t) =>
            t.level + 1 \in DOMAIN ListedPopulation
              /\ t.population = ListedPopulation[t.level + 1] /\ t.jobs = 0
      /\ isCommercial(t) =>
            t.level + 1 \in DOMAIN ListedCommercialJobs
              /\ t.jobs = ListedCommercialJobs[t.level + 1] /\ t.population = 0
      /\ isIndustrial(t) =>
            t.level + 1 \in DOMAIN ListedIndustrialJobs
              /\ t.jobs = ListedIndustrialJobs[t.level + 1] /\ t.population = 0

\* a zone that developed during this run stands at level 1 with its listed
\* jobs or population, beside a neighbour at a higher level
C13_Witness ==
  /\ lastOp = "updateZoneDevelopment"
  /\ isBuilding(tiles[ZoneA]) /\ tiles[ZoneA].level = 1
  /\ tiles[ZoneA].population + tiles[ZoneA].jobs > 0
  /\ tiles[ZoneB].level > 1

\* what the registered buildings `ids` of zone type z hold on their anchor
\* tiles, each building counted once: population for residential, jobs otherwise
RECURSIVE AnchorTotal(_, _, _, _)
AnchorTotal(ts, bs, ids, z) ==
  IF ids = {} THEN 0
  ELSE LET id == CHOOSE i \in ids : TRUE
           a == ts[AnchorOf(bs[id])]
       IN (IF a.zoneType # z THEN 0
           ELSE IF z = "residential" THEN a.population ELSE a.jobs)
            + AnchorTotal(ts, bs, ids \ {id}, z)

\* C14: getTotalPopulation and getZoneStats count each building once: the
\* population total is the population of the residential buildings' main
\* tiles, the job totals those of the commercial and industrial main tiles,
\* whatever the other tiles of the buildings hold.
C14_EachBuildingOnce ==
  LET s == getZoneStats(tiles) IN
  /\ getTotalPopulation(tiles) = AnchorTotal(tiles, buildings, DOMAIN buildings, "residential")
  /\ s.population = AnchorTotal(tiles, buildings, DOMAIN buildings, "residential")
  /\ s.commercialJobs = AnchorTotal(tiles, buildings, DOMAIN buildings, "commercial")
  /\ s.industrialJobs = AnchorTotal(tiles, buildings, DOMAIN buildings, "industrial")

\* the other tiles of a developed zone hold population or jobs of their own
\* and the totals are not zero
C14_Witness ==
  /\ \E p \in DOMAIN tiles :
       ~tiles[p].isMainTile /\ isBuilding(tiles[p]) /\ tiles[p].population + tiles[p].jobs > 0
  /\ LET s == getZoneStats(tiles) IN s.population + s.commercialJobs + s.industrialJobs > 0

\* the tile fields of the data model named by C15
ListedTileFields ==
  {"type", "zoneType", "level", "zoneClass", "powered", "roadAccess", "buildingId",
   "isMainTile", "buildingWidth", "buildingHeight", "landValue", "pollution", "crime",
   "traffic", "fireRisk", "population", "jobs"}

\* C15: a city that is serialized and deserialized has, on every cell, the
\* same value of every listed tile field as before.
C15_AllFieldsRoundTrip ==
  [][lastOp' = "loadCity" =>
       \A p \in DOMAIN tiles : \A f \in ListedTileFields : tiles'[p][f] = tiles[p][f]]_vars

\* C16: a city that is serialized and deserialized has the same width and
\* height, the same building registry and nextBuildingId, and on every cell
\* the same type, level, population, jobs and buildingId.
C16_CoreFieldsRoundTrip ==
  [][lastOp' = "loadCity" =>
       /\ width' = width /\ height' = height
       /\ buildings' = buildings /\ nextBuildingId' = nextBuildingId
       /\ DOMAIN tiles' = DOMAIN tiles
       /\ \A p \in DOMAIN tiles :
            \A f \in {"type", "level", "population", "jobs", "buildingId"} :
              tiles'[p][f] = tiles[p][f]]_vars

\* a city with a developed zone above level 1 and a police station was loaded
\* back after updateServices had run
C16_Witness ==
  /\ lastOp = "loadCity"
  /\ DOMAIN buildings # {}
  /\ \E p \in DOMAIN tiles : isBuilding(tiles[p]) /\ tiles[p].isMainTile /\ tiles[p].level > 1
  /\ stats.crimeRate > 0

\* a tile that is a source of pollution
IsPollutionSource(t) ==
  \/ isIndustrial(t) /\ isBuilding(t)
  \/ t.type \in {COAL_POWER, SEAPORT, AIRPORT}
  \/ isBurning(t)
  \/ isNuclearWaste(t)

\* C17: when updatePollution has run on a grid without any pollution source,
\* every tile's pollution is 0 and stats.pollutionLevel is 0.
C17_NoSourceNoPollution ==
  (lastOp = "updatePollution" /\ \A p \in DOMAIN tiles : ~IsPollutionSource(tiles[p]))
    => /\ \A p \in DOMAIN tiles : tiles[p].pollution = 0
       /\ stats.pollutionLevel = 0

\* updatePollution ran on a city without sources whose zone has developed
C17_Witness ==
  /\ lastOp = "updatePollution"
  /\ \A p \in DOMAIN tiles : ~IsPollutionSource(tiles[p])
  /\ \E p \in DOMAIN tiles : isBuilding(tiles[p]) /\ tiles[p].level > 0
  /\ \E p \in DOMAIN tiles : tiles[p].type = NUCLEAR_POWER

\* C18: when updatePollution has run, the grid of its sourcing phase holds
\* exactly 250 in every 2x2 square that contains a nuclear-waste tile.
C18_WasteSquareIs250 ==
  lastOp = "updatePollution" =>
    \A c \in GridCells :
      (\E p \in DOMAIN tiles : <<p[1] \div 2, p[2] \div 2>> = c /\ isNuclearWaste(tiles[p]))
        => SourceGrid(tiles)[c] = 250

\* the sixteenths of a lone source's value that two passes leave in a cell
\* dx columns and dy rows away from it
ListedShare(dx, dy) ==
  LET ax == IF dx < 0 THEN -dx ELSE dx
      ay == IF dy < 0 THEN -dy ELSE dy
  IN IF ax = 0 /\ ay = 0 THEN 5
     ELSE IF ax <= 1 /\ ay <= 1 THEN 2
     ELSE IF (ax = 2 /\ ay = 0) \/ (ax = 0 /\ ay = 2) THEN 1
     ELSE 0

\* a cell of the grid that has all four neighbours
IsInterior(s, cells) ==
  \A n \in {<<s[1] - 1, s[2]>>, <<s[1] + 1, s[2]>>, <<s[1], s[2] - 1>>, <<s[1], s[2] + 1>>} :
    n \in cells

\* C19: the two diffusion passes on a grid whose only non-zero cell holds v
\* and lies in the interior leave 5v/16 in that cell, v/8 in each of the 8
\* cells around it, v/16 in the 4 cells two steps north, south, west and east
\* of it, and 0 elsewhere.
C19_TwoPassShares ==
  [][lastOp' = "diffusePollution" =>
       \A s \in DOMAIN ret :
         (/\ IsInterior(s, DOMAIN ret)
          /\ ret[s] # 0
          /\ \A o \in DOMAIN ret \ {s} : ret[o] = 0) =>
           \A c \in DOMAIN ret :
             ret'[c] * 16 = ret[s] * ListedShare(c[1] - s[1], c[2] - s[2])]_vars

\* the passes ran on a source of 250 in the middle of the 5x5 grid
C19_Witness ==
  /\ lastOp = "diffusePollution"
  /\ ret[<<2, 2>>] * 16 = 250 * GridUnit * 5
  /\ ret[<<1, 1>>] * 16 = 250 * GridUnit * 2
  /\ ret[<<2, 0>>] * 16 = 250 * GridUnit
  /\ ret[<<0, 0>>] = 0

----------------------------------------------------------------------------
(* The fields of the tiles after the passes (SpecServices) *)

\* a defined number between lo and hi
InRange(v, lo, hi) == v # NaN /\ v >= lo /\ v <= hi

\* C21: after updateServices has completed, under every police and fire
\* funding percentage, landValue, pollution, crime, traffic and fireRisk of
\* every tile are defined numbers in [0, 255], crime in [0, 50] and fireRisk
\* in [0, 20].
C21_TileFieldsInRange ==
  lastOp = "updateServices" /\ ret =>
    \A p \in DOMAIN tiles :
      /\ InRange(tiles[p].landValue, 0, 255)
      /\ InRange(tiles[p].pollution, 0, 255)
      /\ InRange(tiles[p].traffic, 0, 255)
      /\ InRange(tiles[p].crime, 0, 50)
      /\ InRange(tiles[p].fireRisk, 0, 20)


----------------------------------------------------------------------------
(* Monster and tornado (SpecMonster, SpecTornado) *)

\* C22: a monster is gone (null) once updateMonster has run 50 times since it
\* was triggered: its hp, 50 at the trigger, has dropped by one with every
\* update; as long as it is there its position is inside the map.
C22_MonsterLeavesWithin50 ==
  /\ disasters.monsterUpdates >= 50 => disasters.monster = <<>>
  /\ disasters.monster # <<>> =>
       /\ disasters.monster[1].hp = 50 - disasters.monsterUpdates
       /\ isInBounds(disasters.monster[1].x, disasters.monster[1].y)

C22_Witness ==
  lastOp = "updateMonster" /\ disasters.monsterUpdates = 50 /\ disasters.monster = <<>>

\* C23: a tornado triggered with lifetime L, 30 <= L <= 59, is there after
\* each of the first L - 1 updateTornado calls and null after the L-th.
C23_TornadoLastsItsLifetime ==
  disasters.tornadoLifetime # 0 =>
    /\ disasters.tornadoLifetime \in 30 .. 59
    /\ disasters.tornado = <<>> <=> disasters.tornadoUpdates >= disasters.tornadoLifetime
    /\ disasters.tornadoUpdates <= disasters.tornadoLifetime

C23_Witness ==
  /\ lastOp = "updateTornado" /\ disasters.tornado = <<>>
  /\ disasters.tornadoLifetime = 59 /\ disasters.tornadoUpdates = 59


----------------------------------------------------------------------------
(* Triggers without a target (SpecTrigger) *)

\* C24: triggerNuclearMeltdown called while no tile is the main tile of a
\* nuclear plant, and triggerFireDisaster called while no tile is flammable,
\* leave the grid, the building registry and the active disasters as they were.
C24_NoTargetNoChange ==
  [][(\/ /\ lastOp' = "triggerNuclearMeltdown"
         /\ ~\E p \in DOMAIN tiles : tiles[p].type = NUCLEAR_POWER /\ tiles[p].isMainTile
      \/ /\ lastOp' = "triggerFireDisaster"
         /\ ~\E p \in DOMAIN tiles : isFlammable(tiles[p]))
     => /\ tiles' = tiles
        /\ buildings' = buildings
        /\ fires' = fires
        /\ disasters' = disasters]_vars

\* triggerFireDisaster found nothing flammable and returned false
C24_Witness ==
  /\ lastOp = "triggerFireDisaster"
  /\ ~ret
  /\ ~\E p \in DOMAIN tiles : isFlammable(tiles[p])


----------------------------------------------------------------------------
(* The tick timer (SpecTimer) *)

\* C25: whatever the order of start, pause, setSpeed and the firing of the
\* timer, at most one tick timeout is pending, and a pending one is the one
\* tickTimer holds.
C25_AtMostOneTimer ==
  /\ Cardinality(timer.pending) <= 1
  /\ timer.pending \subseteq {timer.tickTimer}

\* a timeout is pending after setSpeed rescheduled a pending one
C25_Witness ==
  lastOp = "setSpeed" /\ Cardinality(timer.pending) = 1 /\ calendar.ticks > 0

\* C26: while isPaused is true no tick timeout is pending, also when pause()
\* was called from inside the tick by the scenario's win or lose callback; so
\* no tick runs between pause() and the next start().
C26_PausedNoTimer == timer.isPaused => timer.pending = {}

\* the tick in which the scenario was won has paused the simulation
C26_Witness ==
  /\ lastOp = "Simulation.tick" /\ ret
  /\ calendar.scenarioComplete /\ timer.isPaused /\ timer.pending = {}

\* C27: every pass of the tick completes without raising an error, on every
\* grid and at every funding level of the budget (updateServices is the pass
\* whose tile lookups depend on the funding).
C27_PassesComplete ==
  lastOp \in {"updateServices", "Simulation.tick"} => ret = TRUE

\* C28: within one tick a zone's level rises by at most one, and it rises
\* only if the power and road-access passes of that tick leave its main tile
\* powered and with road access and the demand for its zone type, as the tick
\* found it, is greater than 0.
C28_GrowthWithinTick ==
  [][lastOp' = "Simulation.tick" =>
       LET pw == PoweredTiles(tiles, PowerBfs(tiles, buildings))
           ra == updateRoadAccess(pw, buildings)
       IN \A p \in DOMAIN tiles :
            tiles[p].isMainTile /\ tiles[p].zoneType # "null" =>
              /\ tiles'[p].level <= tiles[p].level + 1
              /\ tiles'[p].level > tiles[p].level =>
                    /\ ra[p].powered /\ ra[p].roadAccess
                    /\ getDemandForZone(demand, tiles[p].zoneType) > 0]_vars

\* the first tick has raised the loaded level-1 zone to level 2
C28_Witness ==
  /\ lastOp = "Simulation.tick" /\ calendar.ticks = 1
  /\ tiles[GrowZone].isMainTile /\ tiles[GrowZone].level = 2

\* the entries of fs at the position p
FiresAt(fs, p) == {i \in DOMAIN fs : fs[i].x = p[1] /\ fs[i].y = p[2]}

\* C29: every fire burns out within a bounded number of updateFires: age
\* counts the updates since ignition, after an update no entry is older than
\* 30 (than 10 on a tile whose fireRisk is below 10) and every entry's tile
\* burns, and the tile whose entry the update removed is rubble; updateFires
\* ignites only a flammable, not burning 4-neighbour of a fire whose age is
\* below 20.
C29_FiresBurnOut ==
  /\ [](lastOp = "updateFires" =>
         \A i \in DOMAIN fires :
           LET t == tiles[<<fires[i].x, fires[i].y>>] IN
           /\ isBurning(t)
           /\ fires[i].age <= 30
           /\ (t.fireRisk # NaN /\ t.fireRisk < 10) => fires[i].age <= 10)
  /\ [][lastOp' = "updateFires" =>
          /\ \A i \in DOMAIN fires' :
                LET p == <<fires'[i].x, fires'[i].y>> IN
                IF isBurning(tiles[p])
                  THEN \E j \in FiresAt(fires, p) : fires'[i].age = fires[j].age + 1
                  ELSE fires'[i].age = 0
          /\ \A p \in DOMAIN tiles :
                /\ isBurning(tiles[p]) /\ FiresAt(fires, p) # {} /\ FiresAt(fires', p) = {}
                      => isRubble(tiles'[p])
                /\ ~isBurning(tiles[p]) /\ isBurning(tiles'[p]) =>
                      /\ isFlammable(tiles[p])
                      /\ \E i \in DOMAIN fires :
                           /\ fires[i].age + 1 < 20
                           /\ isBurning(tiles[<<fires[i].x, fires[i].y>>])
                           /\ <<p[1] - fires[i].x, p[2] - fires[i].y>>
                                \in {<<-1, 0>>, <<1, 0>>, <<0, -1>>, <<0, 1>>}]_vars

\* a fire has spread and both tiles have burnt down to rubble at a fire risk
\* of 20
C29_Witness ==
  /\ lastOp = "updateFires" /\ fires = <<>>
  /\ Cardinality({p \in DOMAIN tiles : isRubble(tiles[p])}) = 2
  /\ \A p \in DOMAIN tiles : tiles[p].fireRisk = 20

\* C30: each entry of the scenario's scheduledDisasters is triggered once,
\* in the tick in which the months elapsed since the scenario's start first
\* reach the entry's month, and not again.
C30_TriggeredWhenDue ==
  /\ \A i \in DOMAIN calendar.log : calendar.log[i].at = calendar.log[i].month
  /\ \A i, j \in DOMAIN calendar.log :
        /\ calendar.log[i].type = calendar.log[j].type
        /\ calendar.log[i].month = calendar.log[j].month
        => i = j

\* C31: a load that fails leaves no partly loaded state: the city, the
\* budget and the simulation are as before the load, and the simulation that
\* ran keeps its pending tick.
C31_FailedLoadChangesNothing ==
  [][lastOp' = "loadCity" /\ ~ret' =>
       UNCHANGED <<width, height, tiles, buildings, nextBuildingId, funds, funding,
                   difficulty, fires, stats, disasters, demand, calendar, timer>>]_vars

\* C32: a tile of a zone has a developed building's type exactly if its
\* level is at least 1, also after an unpowered building has decayed
\* repeatedly.
C32_DevelopedIffLevel ==
  \A p \in DOMAIN tiles :
    isZone(tiles[p]) \/ isBuilding(tiles[p]) => (isBuilding(tiles[p]) <=> tiles[p].level >= 1)

\* C33: every tile that burns has exactly one entry in
\* activeDisasters.fires, through ticks, triggers, commands and a save
\* followed by a load.
C33_BurningTileHasItsFire ==
  \A p \in DOMAIN tiles : isBurning(tiles[p]) => Cardinality(FiresAt(fires, p)) = 1

\* C34: bulldoze(x, y) changes only the tile at (x, y) or, when that tile
\* belongs to a building, only tiles that hold that building's id, also
\* after a fire has burnt a part of the building down and the rubble was
\* cleared and built on.
C34_BulldozeFrame ==
  \A c \in RebuildCells :
    LET r == bulldoze(tiles, buildings, nextBuildingId, c[1], c[2]) IN
    \A p \in DOMAIN tiles :
      r.tiles[p] # tiles[p] =>
        \/ p = c
        \/ tiles[c].buildingId # 0 /\ tiles[p].buildingId = tiles[c].buildingId

----------------------------------------------------------------------------
(* The tick timer once more (SpecTimer) *)

\* C35: start, pause, setSpeed, the speed menu and the tick never leave the
\* simulation un-paused with no tick scheduled: when one of them has returned
\* and isPaused is false, exactly one tick timeout is pending.
C35_UnpausedHasTimer ==
  lastOp \in {"start", "pause", "setSpeed", "Game.setSpeed", "Simulation.tick"}
    /\ ~timer.isPaused
    => Cardinality(timer.pending) = 1

----------------------------------------------------------------------------
(* Transport deterioration (SpecTransport) *)

\* Simulation.hasPowerLineCrossover, on the tile
hasPowerLineCrossover(t) == t.powerLineCrossover = TRUE

\* Simulation.updateTransportDeterioration at the transport funding tf; rolls
\* holds the tiles whose roll succeeds (Math.random() < actualChance, which is
\* deteriorationChance * (100 - tf) / 100 of the difficulty settings)
updateTransportDeterioration(ts, tf, rolls) ==
  IF tf >= 100 THEN ts
  ELSE [p \in DOMAIN ts |->
          IF ~isRoad(ts[p]) /\ ~isRail(ts[p]) THEN ts[p]
          ELSE IF hasPowerLineCrossover(ts[p]) THEN ts[p]
          ELSE IF p \in rolls THEN [clear(ts[p]) EXCEPT !.type = RUBBLE]
          ELSE ts[p]]

UpdateTransportDeterioration ==
  /\ Idle
  /\ \E rolls \in SUBSET DOMAIN tiles :
       tiles' = updateTransportDeterioration(tiles, funding.transport, rolls)
  /\ lastOp' = "updateTransportDeterioration"
  /\ ret' = TRUE
  /\ UNCHANGED <<funding, disasters, timer, calendar, width, height, buildings,
                 nextBuildingId, funds, difficulty, stats, demand, fires, zoneScan,
                 cutoffQueue>>

\* a strip of empty land on which roads, rails and power lines are laid and
\* bulldozed while the transport budget is funded in full, by half or not at all
TransportW == 2
TransportH == 1
TransportFundings == {0, 50, 100}

InitTransport ==
  \E tf \in TransportFundings :
    InitWith(TransportW, TransportH,
             [ok |-> TRUE, tiles |-> Terrain(TransportW, TransportH, {}, {}),
              buildings |-> <<>>, nextBuildingId |-> 1],
             "easy", [residential |-> 50, commercial |-> 30, industrial |-> 40],
             [NewFunding EXCEPT !.transport = tf], NoDisasters, NewTimer, NewCalendar)

NextTransport ==
  \/ \E p \in DOMAIN tiles :
       CityCommand(placeRoad(tiles, buildings, nextBuildingId, p[1], p[2]))
  \/ \E p \in DOMAIN tiles :
       CityCommand(placeRail(tiles, buildings, nextBuildingId, p[1], p[2]))
  \/ \E p \in DOMAIN tiles :
       CityCommand(placePowerLine(tiles, buildings, nextBuildingId, p[1], p[2]))
  \/ \E p \in DOMAIN tiles : Bulldoze(p[1], p[2])
  \/ UpdateTransportDeterioration

SpecTransport == InitTransport /\ [][NextTransport]_vars

\* C36: a road or rail that has just been built on a cell, whatever stood
\* there before, is not exempt from deterioration (the pass turns it to rubble
\* when the budget is short and its roll succeeds), and at a transport
\* funding of 100 or more the pass changes no tile.
C36_RebuiltRoadUnprotected ==
  /\ [](\A rolls \in SUBSET DOMAIN tiles :
          updateTransportDeterioration(tiles, 100, rolls) = tiles)
  /\ [][\A p \in DOMAIN tiles :
          /\ ~isRoad(tiles[p]) /\ ~isRail(tiles[p])
          /\ isRoad(tiles'[p]) \/ isRail(tiles'[p])
          => updateTransportDeterioration(tiles', 0, {p})[p].type = RUBBLE]_vars

----------------------------------------------------------------------------
(* Fires die out (SpecFlameFair) *)

\* the forest strip of SpecFlame with a simulation that keeps ticking: a tick
\* reschedules itself, and updateFires is a pass of every tick
SpecFlameFair == SpecFlame /\ WF_vars(UpdateFires)

\* C37: if from some point on no fire disaster is triggered, the list of
\* active fires is empty again and again, that is, every fire is over after
\* finitely many updates; a fire spreads only onto a flammable tile, which
\* then is not flammable, and never onto rubble.
C37_FiresDieOut ==
  /\ <>[](lastOp # "triggerFireDisaster") => []<>(fires = <<>>)
  /\ [][lastOp' = "updateFires" =>
          \A p \in DOMAIN tiles :
            isBurning(tiles'[p]) /\ ~isBurning(tiles[p]) =>
              isFlammable(tiles[p]) /\ ~isRubble(tiles[p]) /\ ~isFlammable(tiles'[p])]_vars

\* the fire has spread once and is over while forest is left on the strip
C37_Witness ==
  /\ lastOp = "updateFires" /\ fires = <<>>
  /\ Cardinality({p \in DOMAIN tiles : isRubble(tiles[p])}) = 2
  /\ \E p \in DOMAIN tiles : isFlammable(tiles[p])

----------------------------------------------------------------------------
(* Water under the disasters (SpecWater) *)

\* the draws that are followed
CrashSites == {<<1, 2>>, <<3, 1>>}
PlaneEtas == {2, 3}
UfoCounts == {3}
UfoSpots == {<<1, 2>>, <<3, 2>>}
UfoRolls == {<<0, 3>>, <<3, 2>>}
MaxUfoUpdates == 2
QuakeTargets == {<<1, 3>>, <<0, 3>>, <<4, 1>>, <<3, 1>>}
QuakeFires == {0, 2}
MaxQuakes == 2
FloodRolls == {<<0, 3>>, <<1, 2>>, <<3, 1>>}
MinorRolls == {<<>>, <<3, 1>>, <<4, 1>>}

TriggerPlaneCrashDisaster ==
  /\ Idle
  /\ \E target \in PlaneTargets(tiles) \cap CrashSites, eta \in PlaneEtas :
       disasters' = [disasters EXCEPT !.plane = <<triggerPlaneCrashDisaster(target, eta)>>]
  /\ lastOp' = "triggerPlaneCrashDisaster"
  /\ ret' = TRUE
  /\ UNCHANGED <<tiles, buildings, fires, funding, timer, calendar, width, height,
                 nextBuildingId, funds, difficulty, stats, demand, zoneScan, cutoffQueue>>

UpdatePlane ==
  /\ Idle
  /\ IF disasters.plane = <<>>
       THEN UNCHANGED <<tiles, buildings, fires, disasters>>
       ELSE \E fireRolls \in SUBSET CrashSites :
              LET r == updatePlane([tiles |-> tiles, buildings |-> buildings, fires |-> fires],
                                   disasters.plane[1], fireRolls)
              IN /\ tiles' = r.tiles
                 /\ buildings' = r.buildings
                 /\ fires' = r.fires
                 /\ disasters' = [disasters EXCEPT !.plane = r.plane]
  /\ lastOp' = "updatePlane"
  /\ ret' = TRUE
  /\ UNCHANGED <<funding, timer, calendar, width, height, nextBuildingId, funds, difficulty,
                 stats, demand, zoneScan, cutoffQueue>>

TriggerUFODisaster ==
  /\ Idle
  /\ \E numUFOs \in UfoCounts :
       disasters' = [disasters EXCEPT !.ufos = triggerUFODisaster(@, numUFOs, 0)]
  /\ lastOp' = "triggerUFODisaster"
  /\ ret' = TRUE
  /\ UNCHANGED <<tiles, buildings, fires, funding, timer, calendar, width, height,
                 nextBuildingId, funds, difficulty, stats, demand, zoneScan, cutoffQueue>>

\* the updates of the UFOs are followed for MaxUfoUpdates updates after the
\* trigger
UpdateUFOs ==
  /\ Idle
  /\ \A i \in DOMAIN disasters.ufos : disasters.ufos[i].lifetime > 40 - MaxUfoUpdates
  /\ \E at \in [DOMAIN disasters.ufos -> UfoSpots], hits \in SUBSET UfoRolls :
     \E fireRolls \in SUBSET hits :
       LET r == updateUFOs([tiles |-> tiles, buildings |-> buildings, fires |-> fires],
                           disasters.ufos, at, hits, fireRolls, 0)
       IN /\ tiles' = r.tiles
          /\ buildings' = r.buildings
          /\ fires' = r.fires
          /\ disasters' = [disasters EXCEPT !.ufos = r.ufos]
  /\ lastOp' = "updateUFOs"
  /\ ret' = TRUE
  /\ UNCHANGED <<funding, timer, calendar, width, height, nextBuildingId, funds, difficulty,
                 stats, demand, zoneScan, cutoffQueue>>

\* the iterations of the earthquake that pass the damage roll
Quakes ==
  LET one == [pos : QuakeTargets, fire : QuakeFires] IN
  UNION {[1 .. n -> one] : n \in 1 .. MaxQuakes}

TriggerEarthquakeDisaster ==
  /\ Idle
  /\ \E quakes \in Quakes :
       LET r == triggerEarthquakeDisaster([tiles |-> tiles, buildings |-> buildings,
                                           fires |-> fires], quakes)
       IN /\ tiles' = r.tiles
          /\ buildings' = r.buildings
          /\ fires' = r.fires
  /\ lastOp' = "triggerEarthquakeDisaster"
  /\ ret' = TRUE
  /\ UNCHANGED <<disasters, funding, timer, calendar, width, height, nextBuildingId, funds,
                 difficulty, stats, demand, zoneScan, cutoffQueue>>

TriggerFloodDisaster ==
  /\ Idle
  /\ \E rolls \in SUBSET FloodRolls :
       LET r == triggerFloodDisaster([tiles |-> tiles, buildings |-> buildings,
                                      fires |-> fires], rolls)
       IN /\ tiles' = r.tiles
          /\ buildings' = r.buildings
  /\ lastOp' = "triggerFloodDisaster"
  /\ ret' = TRUE
  /\ UNCHANGED <<fires, disasters, funding, timer, calendar, width, height, nextBuildingId,
                 funds, difficulty, stats, demand, zoneScan, cutoffQueue>>

\* updateDisasters: the loop in which the floods recede
RecedeFloods ==
  /\ Idle
  /\ \E rolls \in SUBSET FloodRolls : tiles' = recedeFloods(tiles, rolls)
  /\ lastOp' = "recedeFloods"
  /\ ret' = TRUE
  /\ UNCHANGED <<buildings, fires, disasters, funding, timer, calendar, width, height,
                 nextBuildingId, funds, difficulty, stats, demand, zoneScan, cutoffQueue>>

\* the target is followed on the main tile of the airport or seaport
TriggerMinorDisaster ==
  /\ Idle
  /\ IF MinorTargets(tiles) = {}
       THEN UNCHANGED <<tiles, fires>>
       ELSE \E target \in {p \in MinorTargets(tiles) : tiles[p].isMainTile},
               lit \in MinorRolls :
              LET r == triggerMinorDisaster(tiles, fires, target, lit) IN
              /\ tiles' = r.tiles
              /\ fires' = r.fires
  /\ lastOp' = "triggerMinorDisaster"
  /\ ret' = TRUE
  /\ UNCHANGED <<buildings, disasters, funding, timer, calendar, width, height,
                 nextBuildingId, funds, difficulty, stats, demand, zoneScan, cutoffQueue>>

\* a strip of land with two water tiles, a forest and a road, or a seaport or
\* a nuclear plant on a shore; one disaster strikes and runs its course (the
\* monster and the tornado where little stands), and the power and the
\* pollution pass run
NaturalW == 2
NaturalH == 4
ShoreW == 5
ShoreH == 4
MaxStanding == 2

InitWater ==
  \/ InitCity(NaturalW, NaturalH,
              Build(Terrain(NaturalW, NaturalH, {<<0, 1>>, <<1, 3>>}, {<<0, 3>>}),
                    << <<"road", 1, 2>> >>), "hard")
  \/ \E b \in {"seaport", "nuclear-power"} :
       InitCity(ShoreW, ShoreH,
                Build(Terrain(ShoreW, ShoreH, {<<4, y>> : y \in 0 .. ShoreH - 1}, {}),
                      << <<b, 0, 0>> >>), "hard")

\* no disaster has struck yet
Calm == lastOp = "init"

\* nothing moves over the map: the passes of the tick are followed then
Quiet == disasters.monster = <<>> /\ disasters.tornado = <<>> /\ disasters.ufos = <<>>

LittleStands ==
  Cardinality({p \in DOMAIN tiles : ~isWater(tiles[p]) /\ ~isEmpty(tiles[p])}) <= MaxStanding

NextWater ==
  \/ Calm /\ TriggerFireDisaster
  \/ UpdateFires
  \/ Calm /\ LittleStands /\ TriggerMonsterDisaster
  \/ disasters.monster # <<>> /\ UpdateMonster
  \/ Calm /\ LittleStands /\ TriggerTornadoDisaster
  \/ disasters.tornado # <<>> /\ UpdateTornado
  \/ Calm /\ TriggerNuclearMeltdown
  \/ Calm /\ TriggerPlaneCrashDisaster
  \/ disasters.plane # <<>> /\ UpdatePlane
  \/ Calm /\ TriggerUFODisaster
  \/ disasters.ufos # <<>> /\ UpdateUFOs
  \/ Calm /\ TriggerEarthquakeDisaster
  \/ Calm /\ TriggerFloodDisaster
  \/ (\E p \in DOMAIN tiles : isFlooded(tiles[p])) /\ RecedeFloods
  \/ Calm /\ TriggerMinorDisaster
  \/ Quiet /\ UpdatePowerGrid
  \/ Quiet /\ UpdatePollution

SpecWater == InitWater /\ [][NextWater]_vars

\* the fields of a tile that no pass of the tick recomputes
KeptFields(t) ==
  [t EXCEPT !.powered = FALSE, !.roadAccess = FALSE, !.landValue = 0, !.pollution = 0,
            !.crime = 0, !.traffic = 0, !.fireRisk = 0]

\* C38: no disaster and no pass of the tick changes a water tile: it stays
\* water, and all its fields but the recomputed scalars (powered, roadAccess,
\* landValue, pollution, crime, traffic, fireRisk) stay as they are.
C38_WaterUntouched ==
  [][\A p \in DOMAIN tiles :
       isWater(tiles[p]) => KeptFields(tiles'[p]) = KeptFields(tiles[p])]_vars

\* an earthquake has struck beside the water, or the flood has risen from it,
\* a UFO has attacked the shore or the plane has come down on it
C38_Witness ==
  /\ \E p \in DOMAIN tiles : isWater(tiles[p])
  /\ \E p \in DOMAIN tiles, i \in DOMAIN FireDirs :
       LET q == <<p[1] + FireDirs[i][1], p[2] + FireDirs[i][2]>> IN
       /\ isWater(tiles[p]) /\ q \in DOMAIN tiles
       /\ isRubble(tiles[q]) \/ isFlooded(tiles[q]) \/ isBurning(tiles[q])
  /\ lastOp \in {"triggerEarthquakeDisaster", "triggerFloodDisaster", "updateUFOs",
                 "updatePlane"}


----------------------------------------------------------------------------
(* SpecScenario: a scenario close to its time limit, a scenario without a   *)
(* time limit and a scenario that is won at once; the simulation ticks, is  *)
(* paused and started again, and the player continues after a win.          *)

\* the scenarios followed, and the months left to the time limit at most
ScenarioRuns == {"tokyo", "boston", "lasVegas", "freeland", "detroit"}
MaxMonthsLeft == 2

\* the months a scenario has run: `left` months before its time limit; a
\* scenario without a time limit, or with the crime goal an empty city meets
\* at its first tick, has just begun
RunMonths(id, left) ==
  IF SCENARIOS(id).duration > 0 /\ SCENARIOS(id).goalType # "crime"
    THEN SCENARIOS(id).duration * 12 - left
    ELSE 0

\* the calendar after setScenario and `elapsed` ticks: the scheduled
\* disasters that were due have been triggered
RunningCalendar(id, elapsed) ==
  LET scenario == SCENARIOS(id)
  IN [setScenario(NewCalendar, scenario) EXCEPT
        !.year = scenario.year + elapsed \div 12,
        !.month = elapsed % 12,
        !.scenarioMonthsElapsed = elapsed,
        !.triggeredDisasters =
          {<<scenario.scheduledDisasters[i].type, scenario.scheduledDisasters[i].month>> :
             i \in {j \in DOMAIN scenario.scheduledDisasters :
                      scenario.scheduledDisasters[j].month < elapsed}}]

\* Game.onScenarioWin, "Continue Playing": the scenario is cleared and the
\* simulation started
ContinuePlaying ==
  /\ Idle
  /\ calendar.scenario # <<>>
  /\ calendar.scenarioComplete
  /\ calendar' = [calendar EXCEPT !.scenario = <<>>]
  /\ timer' = start(timer)
  /\ lastOp' = "continuePlaying"
  /\ ret' = TRUE
  /\ UNCHANGED <<tiles, buildings, fires, stats, disasters, funding, width, height,
                 nextBuildingId, funds, difficulty, demand, zoneScan, cutoffQueue>>

\* what the ticks of a scenario leave of a city nothing was built in: the
\* crime and fire risk updateServices writes where no station covers, and
\* the demand updateDemand settles at
SettledTiles(ts, elapsed) ==
  IF elapsed = 0 THEN ts
  ELSE [p \in DOMAIN ts |-> [ts[p] EXCEPT !.crime = 50, !.fireRisk = 20]]
SettledDemand(elapsed) ==
  IF elapsed = 0 THEN [residential |-> 50, commercial |-> 30, industrial |-> 40]
  ELSE [residential |-> 116, commercial |-> 24, industrial |-> 55]

\* Game.startScenario and simulation.start(), followed by the ticks of the
\* months the scenario has run
InitScenario ==
  \E id \in ScenarioRuns, left \in 1..MaxMonthsLeft :
    LET elapsed == RunMonths(id, left)
    IN InitWith(TimerW, TimerH,
                [ok |-> TRUE,
                 tiles |-> SettledTiles(Terrain(TimerW, TimerH, {<<0, 0>>}, {<<1, 1>>}),
                                        elapsed),
                 buildings |-> <<>>, nextBuildingId |-> 1],
                "hard", SettledDemand(elapsed),
                NewFunding, NoDisasters, start(NewTimer),
                RunningCalendar(id, elapsed))

NextScenario ==
  \/ Start
  \/ Pause
  \/ Tick
  \/ ContinuePlaying

SpecScenario == InitScenario /\ [][NextScenario]_vars

\* C39: while a scenario is active, scenarioComplete and scenarioFailed are
\* never both true and neither changes once one of them is set; a tick calls
\* the win or lose callback (and so leaves the simulation paused) only when it
\* sets one of the flags, hence at most once; scenarioFailed is set only by a
\* tick of a scenario with a time limit, at which the months elapsed have
\* reached duration * 12 and the goal is not met; a scenario without a time
\* limit never fails.
C39_ScenarioFlags ==
  /\ [](~(calendar.scenarioComplete /\ calendar.scenarioFailed))
  /\ [](calendar.scenario # <<>> /\ calendar.scenario[1].duration = -1
          => ~calendar.scenarioFailed)
  /\ [][calendar.scenarioComplete \/ calendar.scenarioFailed
          => /\ calendar'.scenarioComplete = calendar.scenarioComplete
             /\ calendar'.scenarioFailed = calendar.scenarioFailed]_vars
  /\ [][lastOp' = "Simulation.tick" /\ calendar'.ticks # calendar.ticks
          /\ ~timer.isPaused /\ timer'.isPaused
          => /\ ~calendar.scenarioComplete /\ ~calendar.scenarioFailed
             /\ calendar'.scenarioComplete \/ calendar'.scenarioFailed]_vars
  /\ [][~calendar.scenarioFailed /\ calendar'.scenarioFailed
          => /\ lastOp' = "Simulation.tick"
             /\ calendar.scenario # <<>>
             /\ calendar.scenario[1].duration > 0
             /\ MonthsElapsed(calendar') >= calendar.scenario[1].duration * 12
             /\ ~checkScenarioGoal(calendar.scenario[1], stats')]_vars

\* a failed scenario whose simulation was started again and has ticked past
\* the time limit
C39_Witness ==
  /\ lastOp = "Simulation.tick"
  /\ calendar.scenario # <<>>
  /\ calendar.scenarioFailed
  /\ ~calendar.scenarioComplete
  /\ MonthsElapsed(calendar) > calendar.scenario[1].duration * 12

====
